---- MODULE Spec2Model ----
(***************************************************************************)
(* BetterNotes: the editor state controller (NotesApp, src/app.js), the    *)
(* Firestore note store it talks to, and the client-side assist service    *)
(* (AIService, src/ai-service.js).                                         *)
(*                                                                         *)
(* The browser runs every handler to its next await in one step; a network *)
(* call is a request record that the server serves and whose response      *)
(* later resumes the handler.  Time is in milliseconds.                    *)
(***************************************************************************)
EXTENDS Integers, Sequences, FiniteSets, Bags, TLC

\* ---------------------------------------------------------------- bounds
MaxNotes == 2        \* document ids the store hands out (initial + created)
MaxInFlight == 2     \* store requests awaiting their response
MaxAssist == 2       \* assist invocations awaiting their response
MaxTime == 3000      \* last instant of the global clock, ms
MaxGestures == 2     \* clicks, input events and double Enters in a session
MaxEditGestures == 4 \* the same, in a session without New Note and assist
MaxAssistGestures == 3 \* the same, in a session that only types and assists
MaxKeyGestures == 4  \* the same, in a session of typing and Enter presses
MaxSaveGestures == 3 \* the same, in a session that selects, types and saves
MaxBlocks == 2       \* blocks of a text handed to a normalizer
MaxPasses == 2       \* successive passes of a normalizer over one text
MaxPresses == 3      \* Enter presses fed to a detector on its own
MaxScanLen == 4      \* characters of a text given to fixMarkdownFormatting

\* ------------------------------------------------------------- constants
AutoSaveDelay == 1000        \* scheduleAutoSave: setTimeout(..., 1000)
AutoSavedStatusDelay == 2000 \* saveCurrentNote: setTimeout(clear, 2000)
ImprovedStatusDelay == 3000  \* handleDoubleEnter*: setTimeout(clear, 3000)

TimeSteps == {1000}          \* granularity of the clock
ClockSkews == {0 - 2000, 0}  \* client clock minus server clock
Epoch == 1000000             \* Date.now() when the page is opened
DoubleEnterMin == 50         \* a double press is more than this apart...
DoubleEnterMax == 800        \* ...and less than this
KeyGaps == {50, 51, 799, 800} \* time from one key press to the next, ms

Null == 0                    \* currentNoteId = null; also "no document id"
NoTimer == 0 - 1             \* no pending timeout
NoteIds == 1..MaxNotes

\* JavaScript values a handler tests: a string, undefined
JsString(s) == [type |-> "string", value |-> s]
JsUndefined == [type |-> "undefined", value |-> << >>]
\* v.name for a value that is not null; a string has no such property
GetProperty(v, name) == JsUndefined
\* a || b
Or(a, b) == IF a.type = "string" /\ a.value # << >> THEN a ELSE b
Truthy(v) == v.type = "string" /\ v.value # << >>

\* Strings the code trims are sequences of one-character strings.
UntitledNote ==
    <<"U", "n", "t", "i", "t", "l", "e", "d", " ", "N", "o", "t", "e">>
TypedTitles == {<<" ">>, <<" ", "a", " ">>}
\* innerHTML of the editor: a sequence of tokens, a tag or a character.
TypedContents == {<<"x">>, <<"<br>", " ">>}

\* ------------------------------------------------------- pure functions
\* the white space String.prototype.trim removes
IsSpace(c) == c \in {" ", "\n"}

RECURSIVE TrimStart(_)
TrimStart(s) ==
    IF s # << >> /\ IsSpace(Head(s)) THEN TrimStart(Tail(s)) ELSE s

RECURSIVE TrimEnd(_)
TrimEnd(s) ==
    IF s # << >> /\ IsSpace(s[Len(s)])
    THEN TrimEnd(SubSeq(s, 1, Len(s) - 1))
    ELSE s

\* String.prototype.trim
Trim(s) == TrimEnd(TrimStart(s))

\* saveCurrentNote: this.noteTitle.value.trim() || 'Untitled Note'
TitleToSave(t) == IF Trim(t) = << >> THEN UntitledNote ELSE Trim(t)

IsTag(tok) == tok \in {"<br>", "<p>", "</p>"}
\* Node.textContent of the editor container: the character data only.
TextContent(html) == SelectSeq(html, LAMBDA tok : ~IsTag(tok))

RemoveAt(s, i) == SubSeq(s, 1, i - 1) \o SubSeq(s, i + 1, Len(s))

Ids(list) == {list[i].id : i \in 1..Len(list)}

\* Array.prototype.findIndex(note => note.id === id); 0 stands for -1
FindIndex(list, id) ==
    IF \E i \in 1..Len(list) : list[i].id = id
    THEN CHOOSE i \in 1..Len(list) :
            /\ list[i].id = id
            /\ \A j \in 1..(i - 1) : list[j].id # id
    ELSE 0

\* Array.prototype.filter(note => note.id !== id)
FilterOut(list, id) == SelectSeq(list, LAMBDA n : n.id # id)

\* ---------------------------------------------------------------- state
VARIABLES
    now,            \* server (true) time, ms
    clockSkew,      \* Date.now() - server time on this client
    store,          \* Firestore collection 'notes': id -> document or NoDoc
    nextId,         \* next document id the store hands out
    notes,          \* this.notes
    currentNoteId,  \* this.currentNoteId
    noteTitle,      \* this.noteTitle.value
    editorHtml,     \* this.tiptapContainer.innerHTML
    view,           \* which of editorArea / welcomeMessage is displayed
    saveStatus,     \* this.saveStatus.textContent
    saveTimeout,    \* deadline of the pending this.saveTimeout, or NoTimer
    timeouts,       \* the timeouts scheduleAutoSave has pending: a bag of deadlines
    statusTimers,   \* deadlines of the pending status-clearing timeouts
    pending,        \* store requests in flight, in issue order
    isProcessing,   \* this.aiService.isProcessing
    aiPending,      \* assist invocations in flight, in issue order
    autoSave,       \* history: the triggers merged into the pending timer
    gestures,       \* user gestures the session still has to come
    selectCall,     \* history: whether the last selectNote found its id
    enter,          \* the double-Enter detector of the content editor
    gateway,        \* an invocation of a gateway function, run with two credentials
    render,         \* the last MarkdownRenderer.renderMarkdown call and its container
    failure,        \* history: a request has failed and no user event followed
    detector,       \* a double-Enter detector fed with Enter presses, on its own
    scan            \* a call of the gateway's token-based fixMarkdownFormatting

vars == <<now, clockSkew, store, nextId, notes, currentNoteId, noteTitle,
          editorHtml, view, saveStatus, saveTimeout, timeouts, statusTimers, pending,
          isProcessing, aiPending, autoSave, gestures, selectCall, enter,
          gateway, render, failure, detector, scan>>

NoDoc == [exists |-> FALSE]
Doc(title, content, updatedAt) ==
    [exists |-> TRUE, title |-> title, content |-> content,
     updatedAt |-> updatedAt]

\* new Date() / Date.now() on the client
ClientNow == now + clockSkew

\* A note as the controller holds it in this.notes
Note(id, title, content, updatedAt) ==
    [id |-> id, title |-> title, content |-> content, updatedAt |-> updatedAt]

\* A store request in flight.  stage: "sent", then "ok" once the server has
\* carried it out; a request that fails (transport, permission, missing
\* document) stays "sent" until its promise rejects.  after: the handler
\* that awaits the caller.
Request(op, id, title, content, auto, after) ==
    [op |-> op, id |-> id, title |-> title, content |-> content,
     auto |-> auto, after |-> after, stage |-> "sent", snapshot |-> << >>]

\* The documents present before the session: note i was last written
\* one second after note i - 1, all before time 0.
InitialDoc(i, k) == Doc(<<"a">>, <<"x">>, 1000 * (i - k - 1))

NoTrigger == [count |-> 0, note |-> Null, same |-> TRUE,
              title |-> << >>, html |-> << >>]

\* --------------------------------------------------------------- store
\* Firestore orderBy('updatedAt', 'desc'); equal timestamps fall back to
\* the document name, in the same direction.
ListedBefore(st, i, j) ==
    \/ st[i].updatedAt > st[j].updatedAt
    \/ st[i].updatedAt = st[j].updatedAt /\ i > j

RECURSIVE ListFrom(_, _)
ListFrom(st, S) ==
    IF S = {} THEN << >>
    ELSE LET m == CHOOSE i \in S : \A j \in S \ {i} : ListedBefore(st, i, j)
         IN  <<Note(m, st[m].title, st[m].content, st[m].updatedAt)>>
                 \o ListFrom(st, S \ {m})

\* db.collection('notes').orderBy('updatedAt', 'desc').get()
StoreList(st) == ListFrom(st, {i \in NoteIds : st[i].exists})

\* The server carries out request i.  update() of a missing document is
\* refused; delete() of a missing document succeeds.
StoreAccept(i) ==
    LET r == pending[i] IN
    /\ r.stage = "sent"
    /\ \/ /\ r.op = "load"
          /\ pending' = [pending EXCEPT ![i].stage = "ok",
                                        ![i].snapshot = StoreList(store)]
          /\ UNCHANGED <<store, nextId>>
       \/ /\ r.op = "create"
          /\ nextId <= MaxNotes
          /\ store' = [store EXCEPT ![nextId] = Doc(r.title, r.content, now)]
          /\ nextId' = nextId + 1
          /\ pending' = [pending EXCEPT ![i].stage = "ok", ![i].id = nextId]
       \/ /\ r.op = "save"
          /\ store[r.id].exists
          /\ store' = [store EXCEPT ![r.id] = Doc(r.title, r.content, now)]
          /\ pending' = [pending EXCEPT ![i].stage = "ok"]
          /\ UNCHANGED nextId
       \/ /\ r.op = "delete"
          /\ store' = [store EXCEPT ![r.id] = NoDoc]
          /\ pending' = [pending EXCEPT ![i].stage = "ok"]
          /\ UNCHANGED nextId
    /\ UNCHANGED <<selectCall, now, clockSkew, scan, detector, failure, render, enter, gateway, notes, currentNoteId, noteTitle,
                   editorHtml, view, saveStatus, saveTimeout, timeouts, statusTimers,
                   isProcessing, aiPending, autoSave, gestures>>

\* ---------------------------------------------------------- controller
\* the user acts: one gesture fewer to come
Gesture == gestures > 0 /\ gestures' = gestures - 1 /\ failure' = FALSE

\* history: the selection becomes id while an auto-save timer is pending
Track(id) ==
    IF autoSave.count = 0 THEN autoSave
    ELSE [autoSave EXCEPT !.same = @ /\ id = autoSave.note]

\* history: an input event leaves the editor holding (t, h) and restarts
\* the timer; it merges with the pending trigger when less than
\* AutoSaveDelay has passed since that trigger.
Merge(t, h) ==
    IF autoSave.count >= 1 /\ saveTimeout # NoTimer /\ now < saveTimeout
    THEN [count |-> 2, note |-> autoSave.note,
          same |-> autoSave.same /\ currentNoteId = autoSave.note,
          title |-> t, html |-> h]
    ELSE [count |-> 1, note |-> currentNoteId, same |-> TRUE,
          title |-> t, html |-> h]

\* a selectNote that takes the id it is given without looking it up
SelectNote_Unchecked(list, noteId) ==
    /\ selectCall' = "found"
    /\ currentNoteId' = noteId
    /\ noteTitle' = << >>
    /\ editorHtml' = << >>
    /\ view' = "editor"
    /\ autoSave' = Track(noteId)

\* selectNote(noteId), looking the note up in list
SelectNote(list, noteId) ==
    LET idx == FindIndex(list, noteId) IN
    IF idx = 0
    THEN /\ selectCall' = "absent"
         /\ UNCHANGED <<currentNoteId, noteTitle, editorHtml, view, autoSave>>
    ELSE /\ selectCall' = "found"
         /\ currentNoteId' = noteId
         /\ noteTitle' = list[idx].title
         /\ editorHtml' = list[idx].content
         /\ view' = "editor"
         /\ autoSave' = Track(noteId)

\* a click on a rendered note item
ClickNote(noteId) ==
    /\ noteId \in Ids(notes)
    /\ SelectNote(notes, noteId)
    /\ Gesture
    /\ UNCHANGED <<now, clockSkew, scan, detector, render, enter, gateway, store, nextId, notes, saveStatus,
                   saveTimeout, timeouts, statusTimers, pending, isProcessing,
                   aiPending>>

\* window.notesApp.selectNote(noteId), called with an id that no rendered
\* item carries
SelectNoteUnlisted(noteId) ==
    /\ noteId \notin Ids(notes)
    /\ SelectNote(notes, noteId)
    /\ Gesture
    /\ UNCHANGED <<now, clockSkew, scan, detector, render, enter, gateway, store, nextId, notes, saveStatus,
                   saveTimeout, timeouts, statusTimers, pending, isProcessing,
                   aiPending>>

\* a scheduleAutoSave that sets its timeout without clearing the last
ScheduleAutoSave_NoClear ==
    /\ timeouts' = timeouts (+) SetToBag({now + AutoSaveDelay})
    /\ saveTimeout' = now + AutoSaveDelay

\* scheduleAutoSave(): clearTimeout, then setTimeout(..., 1000)
ScheduleAutoSave ==
    /\ timeouts' = (timeouts (-) SetToBag({saveTimeout}))
                       (+) SetToBag({now + AutoSaveDelay})
    /\ saveTimeout' = now + AutoSaveDelay

\* 'input' on the title field
TitleInput(t) ==
    /\ view # "welcome"
    /\ noteTitle' = t
    /\ ScheduleAutoSave
    /\ autoSave' = Merge(t, editorHtml)
    /\ Gesture
    /\ UNCHANGED <<selectCall, now, clockSkew, scan, detector, render, enter, gateway, store, nextId, notes, currentNoteId,
                   editorHtml, view, saveStatus, statusTimers, pending,
                   isProcessing, aiPending>>

\* 'input' on the editor container
ContentInput(h) ==
    /\ view # "welcome"
    /\ editorHtml' = h
    /\ ScheduleAutoSave
    /\ autoSave' = Merge(noteTitle, h)
    /\ Gesture
    /\ UNCHANGED <<selectCall, now, clockSkew, scan, detector, render, enter, gateway, store, nextId, notes, currentNoteId,
                   noteTitle, view, saveStatus, statusTimers, pending,
                   isProcessing, aiPending>>

\* createNewNote() up to its await
CreateNewNote ==
    /\ Len(pending) < MaxInFlight
    /\ saveStatus' = <<"Creating new note...">>
    /\ pending' = Append(pending,
                     Request("create", Null, UntitledNote, << >>, FALSE, "none"))
    /\ Gesture
    /\ UNCHANGED <<selectCall, now, clockSkew, scan, detector, render, enter, gateway, store, nextId, notes, currentNoteId,
                   noteTitle, editorHtml, view, saveTimeout, timeouts, statusTimers,
                   isProcessing, aiPending, autoSave>>

\* createNewNote() pushing the new note at the tail instead of the head
CreateResolved_Push(i) ==
    LET r == pending[i]
        noteWithId == Note(r.id, UntitledNote, << >>, ClientNow)
    IN
    /\ r.op = "create" /\ r.stage = "ok"
    /\ notes' = Append(notes, noteWithId)
    /\ SelectNote(notes', r.id)
    /\ saveStatus' = <<"New note created">>
    /\ pending' = RemoveAt(pending, i)
    /\ UNCHANGED <<now, clockSkew, scan, detector, failure, render, enter, gateway, store, nextId, saveTimeout, timeouts, statusTimers,
                   isProcessing, aiPending, gestures>>

\* createNewNote() after db.collection('notes').add() resolved
CreateResolved(i) ==
    LET r == pending[i]
        noteWithId == Note(r.id, UntitledNote, << >>, ClientNow)
    IN
    /\ r.op = "create" /\ r.stage = "ok"
    /\ notes' = <<noteWithId>> \o notes
    /\ SelectNote(notes', r.id)
    /\ saveStatus' = <<"New note created">>
    /\ pending' = RemoveAt(pending, i)
    /\ UNCHANGED <<now, clockSkew, scan, detector, failure, render, enter, gateway, store, nextId, saveTimeout, timeouts, statusTimers,
                   isProcessing, aiPending, gestures>>

\* createNewNote() whose catch branch also falls back to the welcome state
CreateFailed_Deselecting(i) ==
    /\ pending[i].op = "create" /\ pending[i].stage = "sent"
    /\ saveStatus' = <<"Error creating note">>
    /\ pending' = RemoveAt(pending, i)
    /\ currentNoteId' = Null
    /\ view' = "welcome"
    /\ autoSave' = Track(Null)
    /\ failure' = TRUE
    /\ UNCHANGED <<selectCall, now, clockSkew, scan, detector, render, enter, gateway, store, nextId, notes, noteTitle,
                   editorHtml, saveTimeout, timeouts, statusTimers, isProcessing,
                   aiPending, gestures>>

\* createNewNote(), catch branch
CreateFailed(i) ==
    /\ pending[i].op = "create" /\ pending[i].stage = "sent"
    /\ saveStatus' = <<"Error creating note">>
    /\ pending' = RemoveAt(pending, i)
    /\ failure' = TRUE
    /\ UNCHANGED <<selectCall, now, clockSkew, scan, detector, render, enter, gateway, store, nextId, notes, currentNoteId,
                   noteTitle, editorHtml, view, saveTimeout, timeouts, statusTimers,
                   isProcessing, aiPending, autoSave, gestures>>

\* deleteCurrentNote() up to its await; confirmed is the answer to confirm()
DeleteCurrentNote(confirmed) ==
    IF currentNoteId = Null \/ ~confirmed
    THEN UNCHANGED vars
    ELSE /\ Len(pending) < MaxInFlight
         /\ saveStatus' = <<"Deleting note...">>
         /\ pending' = Append(pending,
                Request("delete", currentNoteId, << >>, << >>, FALSE, "none"))
         /\ Gesture
         /\ UNCHANGED <<selectCall, now, clockSkew, scan, detector, render, enter, gateway, store, nextId, notes, currentNoteId,
                        noteTitle, editorHtml, view, saveTimeout, timeouts,
                        statusTimers, isProcessing, aiPending, autoSave>>

\* deleteCurrentNote() after doc(...).delete() resolved
DeleteResolved(i) ==
    /\ pending[i].op = "delete" /\ pending[i].stage = "ok"
    /\ notes' = FilterOut(notes, currentNoteId)
    /\ view' = "welcome"
    /\ currentNoteId' = Null
    /\ autoSave' = Track(Null)
    /\ saveStatus' = <<"Note deleted">>
    /\ pending' = RemoveAt(pending, i)
    /\ UNCHANGED <<selectCall, now, clockSkew, scan, detector, failure, render, enter, gateway, store, nextId, noteTitle, editorHtml,
                   saveTimeout, timeouts, statusTimers, isProcessing, aiPending, gestures>>

\* deleteCurrentNote() whose catch branch drops the local entry all the same
DeleteFailed_Removing(i) ==
    /\ pending[i].op = "delete" /\ pending[i].stage = "sent"
    /\ notes' = FilterOut(notes, pending[i].id)
    /\ saveStatus' = <<"Error deleting note">>
    /\ pending' = RemoveAt(pending, i)
    /\ failure' = TRUE
    /\ UNCHANGED <<selectCall, now, clockSkew, scan, detector, render, enter, gateway, store, nextId, currentNoteId, noteTitle,
                   editorHtml, view, saveTimeout, timeouts, statusTimers, isProcessing,
                   aiPending, autoSave, gestures>>

\* deleteCurrentNote(), catch branch
DeleteFailed(i) ==
    /\ pending[i].op = "delete" /\ pending[i].stage = "sent"
    /\ saveStatus' = <<"Error deleting note">>
    /\ pending' = RemoveAt(pending, i)
    /\ failure' = TRUE
    /\ UNCHANGED <<selectCall, now, clockSkew, scan, detector, render, enter, gateway, store, nextId, notes, currentNoteId,
                   noteTitle, editorHtml, view, saveTimeout, timeouts, statusTimers,
                   isProcessing, aiPending, autoSave, gestures>>

\* a saveCurrentNote whose auto-save sends the title field as it stands
SaveRequest_AutoUntrimmed(html, isAutoSave, after) ==
    Request("save", currentNoteId,
            IF isAutoSave THEN noteTitle ELSE TitleToSave(noteTitle),
            html, isAutoSave, after)

\* a saveCurrentNote that sends the content the list holds for the note
\* instead of the editor's
SaveRequest_FromList(html, isAutoSave, after) ==
    LET noteIndex == FindIndex(notes, currentNoteId) IN
    Request("save", currentNoteId, TitleToSave(noteTitle),
            IF noteIndex # 0 THEN notes[noteIndex].content ELSE html,
            isAutoSave, after)

\* saveCurrentNote(isAutoSave) up to its await, with the editor holding
\* html; the caller has checked or will check nothing else.  after names
\* the handler that awaits the save.
SaveRequest(html, isAutoSave, after) ==
    Request("save", currentNoteId, TitleToSave(noteTitle), html,
            isAutoSave, after)

\* a click on the save button: saveCurrentNote()
SaveCurrentNote ==
    IF currentNoteId = Null
    THEN UNCHANGED vars
    ELSE /\ Len(pending) < MaxInFlight
         /\ saveStatus' = <<"Saving...">>
         /\ pending' = Append(pending, SaveRequest(editorHtml, FALSE, "none"))
         /\ Gesture
         /\ UNCHANGED <<selectCall, now, clockSkew, scan, detector, render, enter, gateway, store, nextId, notes, currentNoteId,
                        noteTitle, editorHtml, view, saveTimeout, timeouts,
                        statusTimers, isProcessing, aiPending, autoSave>>

\* the scheduleAutoSave timeout fires
AutoSaveTimer ==
    /\ \E d \in BagToSet(timeouts) :
          /\ now >= d
          /\ timeouts' = timeouts (-) SetToBag({d})
          /\ saveTimeout' = IF d = saveTimeout THEN NoTimer ELSE saveTimeout
    /\ autoSave' = NoTrigger
    /\ IF currentNoteId # Null
       THEN /\ Len(pending) < MaxInFlight
            /\ pending' = Append(pending, SaveRequest(editorHtml, TRUE, "none"))
       ELSE UNCHANGED pending
    /\ UNCHANGED <<selectCall, now, clockSkew, scan, detector, failure, render, enter, gateway, store, nextId, notes, currentNoteId,
                   noteTitle, editorHtml, view, saveStatus, statusTimers,
                   isProcessing, aiPending, gestures>>

\* The tail of handleDoubleEnterAI / handleDoubleEnterFallback once the
\* awaited saveCurrentNote(true) has returned (it never throws).
AfterSave(r, status, timers) ==
    IF r.after = "none"
    THEN /\ saveStatus' = status
         /\ statusTimers' = timers
    ELSE /\ saveStatus' = <<"Text improved by AI!">>
         /\ statusTimers' = timers \cup {now + ImprovedStatusDelay}

\* saveCurrentNote() after doc(...).update() resolved
SaveResolved(i) ==
    LET r == pending[i]
        noteIndex == FindIndex(notes, currentNoteId)
    IN
    /\ r.op = "save" /\ r.stage = "ok"
    /\ notes' = IF noteIndex # 0
                THEN [notes EXCEPT ![noteIndex] =
                         Note(@.id, r.title, r.content, ClientNow)]
                ELSE notes
    /\ IF r.auto
       THEN AfterSave(r, <<"Auto-saved">>,
                      statusTimers \cup {now + AutoSavedStatusDelay})
       ELSE AfterSave(r, <<"Note saved!">>, statusTimers)
    /\ pending' = RemoveAt(pending, i)
    /\ UNCHANGED <<selectCall, now, clockSkew, scan, detector, failure, render, enter, gateway, store, nextId, currentNoteId, noteTitle,
                   editorHtml, view, saveTimeout, timeouts, isProcessing, aiPending,
                   autoSave, gestures>>

\* saveCurrentNote() whose catch branch reloads the editor from this.notes
SaveFailed_RollingBack(i) ==
    LET r == pending[i]
        noteIndex == FindIndex(notes, currentNoteId)
    IN
    /\ r.op = "save" /\ r.stage = "sent"
    /\ AfterSave(r, <<"Error saving note">>, statusTimers)
    /\ pending' = RemoveAt(pending, i)
    /\ noteTitle' = IF noteIndex # 0 THEN notes[noteIndex].title ELSE noteTitle
    /\ editorHtml' =
          IF noteIndex # 0 THEN notes[noteIndex].content ELSE editorHtml
    /\ failure' = TRUE
    /\ UNCHANGED <<selectCall, now, clockSkew, scan, detector, render, enter, gateway, store, nextId, notes, currentNoteId,
                   view, saveTimeout, timeouts, isProcessing, aiPending, autoSave,
                   gestures>>

\* saveCurrentNote(), catch branch
SaveFailed(i) ==
    LET r == pending[i] IN
    /\ r.op = "save" /\ r.stage = "sent"
    /\ AfterSave(r, <<"Error saving note">>, statusTimers)
    /\ pending' = RemoveAt(pending, i)
    /\ failure' = TRUE
    /\ UNCHANGED <<selectCall, now, clockSkew, scan, detector, render, enter, gateway, store, nextId, notes, currentNoteId,
                   noteTitle, editorHtml, view, saveTimeout, timeouts, isProcessing,
                   aiPending, autoSave, gestures>>

\* loadNotes() after get() resolved
LoadResolved(i) ==
    LET r == pending[i] IN
    /\ r.op = "load" /\ r.stage = "ok"
    /\ notes' = r.snapshot
    /\ saveStatus' = << >>
    /\ view' = IF Len(r.snapshot) = 0 THEN "welcome" ELSE view
    /\ pending' = RemoveAt(pending, i)
    /\ UNCHANGED <<selectCall, now, clockSkew, scan, detector, failure, render, enter, gateway, store, nextId, currentNoteId, noteTitle,
                   editorHtml, saveTimeout, timeouts, statusTimers, isProcessing,
                   aiPending, autoSave, gestures>>

\* a catch branch that also empties the list
LoadFailed_Clearing(i) ==
    /\ pending[i].op = "load" /\ pending[i].stage = "sent"
    /\ saveStatus' = <<"Error loading notes">>
    /\ notes' = << >>
    /\ pending' = RemoveAt(pending, i)
    /\ failure' = TRUE
    /\ UNCHANGED <<selectCall, now, clockSkew, scan, detector, render, enter, gateway, store, nextId, currentNoteId,
                   noteTitle, editorHtml, view, saveTimeout, timeouts, statusTimers,
                   isProcessing, aiPending, autoSave, gestures>>

\* loadNotes(), catch branch
LoadFailed(i) ==
    /\ pending[i].op = "load" /\ pending[i].stage = "sent"
    /\ saveStatus' = <<"Error loading notes">>
    /\ pending' = RemoveAt(pending, i)
    /\ failure' = TRUE
    /\ UNCHANGED <<selectCall, now, clockSkew, scan, detector, render, enter, gateway, store, nextId, notes, currentNoteId,
                   noteTitle, editorHtml, view, saveTimeout, timeouts, statusTimers,
                   isProcessing, aiPending, autoSave, gestures>>

\* a setTimeout(() => this.showSaveStatus(''), ...) fires
StatusTimer(d) ==
    /\ d \in statusTimers
    /\ now >= d
    /\ statusTimers' = statusTimers \ {d}
    /\ saveStatus' = << >>
    /\ UNCHANGED <<selectCall, now, clockSkew, scan, detector, failure, render, enter, gateway, store, nextId, notes, currentNoteId,
                   noteTitle, editorHtml, view, saveTimeout, timeouts, pending,
                   isProcessing, aiPending, autoSave, gestures>>

\* time passes; a timeout that is due runs before the clock moves on
Tick(d) ==
    /\ now + d <= MaxTime
    /\ \A t \in BagToSet(timeouts) : now < t
    /\ \A t \in statusTimers : now < t
    /\ now' = now + d
    /\ UNCHANGED <<selectCall, clockSkew, scan, detector, failure, render, enter, gateway, store, nextId, notes, currentNoteId, noteTitle,
                   editorHtml, view, saveStatus, saveTimeout, timeouts, statusTimers,
                   pending, isProcessing, aiPending, autoSave, gestures>>

\* -------------------------------------------------------------- assist
\* What the gateway may answer: an HTTP status with, for 200, the
\* generated_text of the body; or no answer at all (fetch rejects).
GatewayStatuses == {200, 403, 429, 503}
GeneratedTexts == {<< >>, <<"z">>, <<"please improve", "\n", "z", " ">>}
\* the message of the TypeError a failed fetch rejects with, per browser
FetchErrorMessages ==
    {<<"Failed to fetch">>,
     <<"NetworkError when attempting to fetch resource.">>}
NullPropertyMessage ==
    <<"Cannot read properties of null (reading 'generated_text')">>

\* String.prototype.includes on a message, for a phrase that is one token
Includes(msg, phrase) == \E i \in 1..Len(msg) : msg[i] = phrase

\* String.prototype.indexOf for a one-token phrase; 0 stands for -1
IndexOf(s, phrase) ==
    IF Includes(s, phrase)
    THEN CHOOSE i \in 1..Len(s) :
            s[i] = phrase /\ \A j \in 1..(i - 1) : s[j] # phrase
    ELSE 0

\* String.prototype.split('\n')
RECURSIVE SplitLines(_)
SplitLines(s) ==
    LET nl == IndexOf(s, "\n") IN
    IF nl = 0 THEN <<s>>
    ELSE <<SubSeq(s, 1, nl - 1)>> \o SplitLines(SubSeq(s, nl + 1, Len(s)))

\* Array.prototype.join('\n')
RECURSIVE JoinLines(_)
JoinLines(ls) ==
    IF ls = << >> THEN << >>
    ELSE IF Len(ls) = 1 THEN ls[1]
    ELSE ls[1] \o <<"\n">> \o JoinLines(Tail(ls))

\* AIService.cleanImprovedText
CleanImprovedText(generatedText) ==
    LET improvedIndex == IndexOf(generatedText, "improved version:")
        cleaned == IF improvedIndex # 0
                   THEN SubSeq(generatedText, improvedIndex + 1,
                               Len(generatedText))
                   ELSE generatedText
        relevant(line) ==
            /\ Trim(line) # << >>
            /\ ~Includes(line, "please improve")
            /\ ~Includes(line, "following text")
            /\ ~Includes(line, "make it clearer")
    IN  Trim(JoinLines(SelectSeq(SplitLines(cleaned), relevant)))

\* where sub first occurs in s as a run of tokens; 0 when it does not
Search(s, sub) ==
    LET at == {i \in 1..(Len(s) - Len(sub) + 1) :
                  SubSeq(s, i, i + Len(sub) - 1) = sub}
    IN  IF at = {} THEN 0 ELSE CHOOSE i \in at : \A j \in at : i <= j

\* Array.prototype.join(' ')
RECURSIVE JoinWords(_)
JoinWords(ls) ==
    IF ls = << >> THEN << >>
    ELSE IF Len(ls) = 1 THEN ls[1]
    ELSE ls[1] \o <<" ">> \o JoinWords(Tail(ls))

\* Array.prototype.map(line => line.trim())
TrimEach(ls) == [k \in 1..Len(ls) |-> Trim(ls[k])]

\* AIService.cleanGPT2Response of the unnamed version
CleanGPT2Response(generatedText, originalText) ==
    LET improvedIndex == IndexOf(generatedText, "Improved:")
        afterMarker == IF improvedIndex # 0
                       THEN SubSeq(generatedText, improvedIndex + 1,
                                   Len(generatedText))
                       ELSE generatedText
        found == Search(afterMarker, originalText)
        withoutOriginal ==
            IF found # 0
            THEN SubSeq(afterMarker, 1, found - 1)
                    \o SubSeq(afterMarker, found + Len(originalText),
                              Len(afterMarker))
            ELSE afterMarker
        withoutArtifacts ==
            SelectSeq(withoutOriginal, LAMBDA tok :
                tok \notin {"Original:",
                            "Improve this text for better note-taking:"})
        lines == SelectSeq(TrimEach(SplitLines(withoutArtifacts)),
                           LAMBDA line : Len(line) > 0)
        cleaned == Trim(JoinWords(lines))
    IN  IF cleaned # << >> THEN cleaned ELSE originalText

\* an isAvailable() that never turns a caller away
IsAvailable_Always == TRUE

\* AIService.isAvailable()
IsAvailable == ~isProcessing

\* improveText without the isProcessing test
Refuses_IgnoringBusy(text) == Trim(text) = << >>

\* an improveText that only refuses while busy
Refuses_IgnoringBlank(text) == isProcessing

\* AIService.improveText: if (this.isProcessing || !text.trim()) return null
Refuses(text) == isProcessing \/ Trim(text) = << >>

\* AIService.improveText(text) up to its fetch, called by handler; refused
\* tells whether it returned null at once
ImproveText(text, handler, refused) ==
    IF Refuses(text)
    THEN /\ refused
         /\ UNCHANGED <<isProcessing, aiPending>>
    ELSE /\ ~refused
         /\ Len(aiPending) < MaxAssist
         /\ isProcessing' = TRUE
         /\ aiPending' = Append(aiPending, [handler |-> handler, text |-> text])

\* texts whose trim() is empty
BlankTexts == {<< >>, <<" ">>, <<" ", " ">>}

\* window.notesApp.aiService.improveText(text) called with a blank text
ImproveBlank(text) ==
    /\ text \in BlankTexts
    /\ \E refused \in BOOLEAN : ImproveText(text, "fallback", refused)
    /\ Gesture
    /\ UNCHANGED <<selectCall, now, clockSkew, scan, detector, render, enter, gateway, store, nextId, notes,
                   currentNoteId, noteTitle, editorHtml, view, saveStatus,
                   saveTimeout, timeouts, statusTimers, pending, autoSave>>

\* showSaveStatus(message, type): the type each message is shown with
StatusType(message) ==
    IF message = << >> THEN ""
    ELSE IF message \in {<<"AI is improving your text...">>,
                         <<"Loading notes...">>, <<"Creating new note...">>,
                         <<"Deleting note...">>, <<"Saving...">>,
                         <<"AI is busy, please wait...">>}
    THEN "loading"
    ELSE IF message \in {<<"Text improved by AI!">>, <<"New note created">>,
                         <<"Note deleted">>, <<"Auto-saved">>,
                         <<"Note saved!">>}
    THEN "success"
    ELSE "error"

\* handleDoubleEnterAI() up to its await: what it does to the status line
\* and to the service
DoubleEnterAI ==
    LET currentContent == TextContent(editorHtml) IN
    IF ~IsAvailable
    THEN /\ saveStatus' = <<"AI is busy, please wait...">>
         /\ UNCHANGED <<isProcessing, aiPending>>
    ELSE IF Trim(currentContent) = << >>
    THEN /\ saveStatus' = <<"No text to improve">>
         /\ UNCHANGED <<isProcessing, aiPending>>
    ELSE \E refused \in BOOLEAN :
         /\ ImproveText(currentContent, "ai", refused)
         /\ saveStatus' = IF refused
                          THEN <<"AI error: ">> \o NullPropertyMessage
                          ELSE <<"AI is improving your text...">>

\* handleDoubleEnterAI(), invoked with no keydown before it
HandleDoubleEnterAI ==
    /\ view # "welcome"
    /\ DoubleEnterAI
    /\ Gesture
    /\ UNCHANGED <<selectCall, now, clockSkew, scan, detector, render, enter, gateway, store, nextId, notes,
                   currentNoteId, noteTitle, editorHtml, view, saveTimeout, timeouts,
                   statusTimers, pending, autoSave>>

\* Date.now(): the client clock, counted from the Unix epoch
DateNow == Epoch + ClientNow

\* a detector that also takes a key repeat for a double press
IsDoublePress_KeyRepeat(timeDiff) == timeDiff < DoubleEnterMax

\* addDoubleEnterDetection: timeDiff < 800 && timeDiff > 50
IsDoublePress(timeDiff) ==
    timeDiff < DoubleEnterMax /\ timeDiff > DoubleEnterMin

NoEnter == [lastEnterTime |-> 0, previous |-> 0, recognised |-> FALSE]

\* The keydown listener of addDoubleEnterDetection, for key 'Enter'. When
\* the press is not recognised as the second of a double press the browser
\* carries out the default action: a line break is inserted and the
\* 'input' listener runs.
EnterKeydown ==
    LET timeDiff == DateNow - enter.lastEnterTime IN
    /\ view # "welcome"
    /\ IF IsDoublePress(timeDiff)
       THEN /\ DoubleEnterAI
            /\ enter' = [lastEnterTime |-> 0, previous |-> DateNow,
                         recognised |-> TRUE]
            /\ UNCHANGED <<editorHtml, saveTimeout, timeouts, autoSave>>
       ELSE /\ enter' = [lastEnterTime |-> DateNow, previous |-> DateNow,
                         recognised |-> FALSE]
            /\ editorHtml' = editorHtml \o <<"<br>">>
            /\ ScheduleAutoSave
            /\ autoSave' = Merge(noteTitle, editorHtml')
            /\ UNCHANGED <<saveStatus, isProcessing, aiPending>>
    /\ Gesture
    /\ UNCHANGED <<selectCall, now, clockSkew, scan, detector, render, gateway, store, nextId, notes,
                   currentNoteId, noteTitle, view, statusTimers, pending>>

\* handleDoubleEnterFallback() up to its await
HandleDoubleEnterFallback ==
    LET content == TextContent(editorHtml) IN
    /\ view # "welcome"
    /\ IF Trim(content) = << >>
       THEN UNCHANGED <<saveStatus, isProcessing, aiPending>>
       ELSE \E refused \in BOOLEAN :
            /\ ImproveText(content, "fallback", refused)
            /\ saveStatus' = IF refused
                             THEN <<"AI improvement failed">>
                             ELSE <<"AI is improving your text...">>
    /\ Gesture
    /\ UNCHANGED <<selectCall, now, clockSkew, scan, detector, render, enter, gateway, store, nextId, notes, currentNoteId,
                   noteTitle, editorHtml, view, saveTimeout, timeouts, statusTimers,
                   pending, autoSave>>

\* .replace(/_([^_*]+)_/g, '<em>$1</em>')
RECURSIVE Emphasis(_, _)
Emphasis(s, i) ==
    LET IsPlain(c) == c \notin {"_", "*"}
        RunOfPlain[k \in 1..(Len(s) + 1)] ==
            IF k <= Len(s) /\ IsPlain(s[k]) THEN 1 + RunOfPlain[k + 1] ELSE 0
        r == RunOfPlain[i + 1]
    IN
    IF i > Len(s) THEN << >>
    ELSE IF s[i] = "_" /\ r >= 1 /\ i + 1 + r <= Len(s) /\ s[i + 1 + r] = "_"
    THEN <<"<em>">> \o SubSeq(s, i + 1, i + r) \o <<"</em>">>
            \o Emphasis(s, i + 2 + r)
    ELSE <<s[i]>> \o Emphasis(s, i + 1)

\* NotesApp.convertMarkdownToHTML.  The class declares the method twice
\* and the later declaration is the one an instance has.  For text
\* without asterisks only its underscore rule applies.
ConvertMarkdownToHTML(text) == Emphasis(text, 1)

\* handleDoubleEnterFallback: `<p>${text.replace(/\n/g, '</p><p>')}</p>`
RECURSIVE ReplaceNewlines(_)
ReplaceNewlines(text) ==
    IF text = << >> THEN << >>
    ELSE (IF Head(text) = "\n" THEN <<"</p>", "<p>">> ELSE <<Head(text)>>)
            \o ReplaceNewlines(Tail(text))

FallbackHTML(text) == <<"<p>">> \o ReplaceNewlines(text) \o <<"</p>">>

\* The handler's branch for a response carrying improved text: the editor
\* is replaced by html and the note, if one is selected, is auto-saved.
ApplyImproved(html, handler) ==
    /\ editorHtml' = html
    /\ IF currentNoteId # Null
       THEN /\ Len(pending) < MaxInFlight
            /\ pending' = Append(pending, SaveRequest(html, TRUE, handler))
            /\ UNCHANGED <<saveStatus, statusTimers>>
       ELSE /\ saveStatus' = <<"Text improved by AI!">>
            /\ statusTimers' = statusTimers \cup {now + ImprovedStatusDelay}
            /\ UNCHANGED pending

\* improveText resolved with the string improved; handler resumes
AssistResolved(i, improved) ==
    LET response == JsString(improved)
        improvedText == Or(GetProperty(response, "generated_text"),
                           GetProperty(response, "improvedText"))
        handler == aiPending[i].handler
    IN
    /\ isProcessing' = FALSE
    /\ aiPending' = RemoveAt(aiPending, i)
    /\ IF Truthy(improvedText) /\ Trim(improvedText.value) # << >>
       THEN ApplyImproved(IF handler = "ai"
                          THEN ConvertMarkdownToHTML(improvedText.value)
                          ELSE FallbackHTML(improvedText.value), handler)
       ELSE /\ saveStatus' = IF handler = "ai"
                             THEN <<"AI couldn't improve this text">>
                             ELSE saveStatus
            /\ UNCHANGED <<editorHtml, statusTimers, pending>>
    /\ UNCHANGED <<selectCall, now, clockSkew, scan, detector, failure, render, enter, gateway, store, nextId, notes, currentNoteId,
                   noteTitle, view, saveTimeout, timeouts, autoSave, gestures>>

\* a catch branch that reports the error and sends the request again
AssistFailed_Retrying(i, message) ==
    /\ isProcessing' = TRUE
    /\ aiPending' = Append(RemoveAt(aiPending, i), aiPending[i])
    /\ saveStatus' = <<"AI error: ">> \o message
    /\ failure' = TRUE
    /\ UNCHANGED <<selectCall, now, clockSkew, scan, detector, render, enter, gateway, store, nextId, notes, currentNoteId,
                   noteTitle, editorHtml, view, saveTimeout, timeouts, statusTimers,
                   pending, autoSave, gestures>>

\* an improveText whose catch path skips the finally block
AssistFailed_FlagKept(i, message) ==
    /\ aiPending' = RemoveAt(aiPending, i)
    /\ saveStatus' = <<"AI error: ">> \o message
    /\ failure' = TRUE
    /\ UNCHANGED <<selectCall, now, clockSkew, scan, detector, render, enter, gateway, store, nextId, notes, currentNoteId,
                   noteTitle, editorHtml, view, saveTimeout, timeouts, statusTimers,
                   pending, autoSave, gestures, isProcessing>>

\* improveText threw an Error with this message; handler's catch branch
AssistFailed(i, message) ==
    /\ isProcessing' = FALSE
    /\ aiPending' = RemoveAt(aiPending, i)
    /\ saveStatus' =
         IF aiPending[i].handler = "fallback"
         THEN <<"AI improvement failed">>
         ELSE IF Includes(message, "Failed to fetch")
         THEN <<"Connection failed. Check internet connection.">>
         ELSE IF Includes(message, "403")
         THEN <<"API key invalid or quota exceeded.">>
         ELSE IF Includes(message, "429")
         THEN <<"Rate limit exceeded. Wait a moment.">>
         ELSE <<"AI error: ">> \o message
    /\ failure' = TRUE
    /\ UNCHANGED <<selectCall, now, clockSkew, scan, detector, render, enter, gateway, store, nextId, notes, currentNoteId,
                   noteTitle, editorHtml, view, saveTimeout, timeouts, statusTimers,
                   pending, autoSave, gestures>>

\* The repository holds two versions of the AIService class: the one of
\* ai-service.js and an unnamed one; which of them the page loads is a
\* choice of the build.
ServiceVersions == {"ai-service.js", "unnamed"}

\* the Error improveText throws for a response that is not ok
ResponseError(version, status) ==
    IF version = "ai-service.js"
    THEN <<"API request failed: ", ToString(status)>>
    ELSE IF status = 404
    THEN <<"Netlify function not found. Function may not be deployed or path incorrect.">>
    ELSE IF status = 500
    THEN <<"Server error. Check Hugging Face token in Netlify environment variables.">>
    ELSE IF status = 503
    THEN <<"AI model is loading. Please wait 30 seconds and try again.">>
    ELSE IF status = 400
    THEN <<"Bad request. Check if text is valid.">>
    ELSE <<"API request failed: ", ToString(status), " - ", "errorText">>

\* the Error improveText throws when fetch rejects with a TypeError whose
\* message is one of FetchErrorMessages (each contains 'fetch')
FetchError(version, message) ==
    IF version = "ai-service.js"
    THEN message
    ELSE <<"Failed to connect to AI service. Check internet connection.">>

\* what improveText does with the generated_text of a response that is
\* ok: the string it resolves with, or the Error it throws
ImproveOutcome(version, generated, text) ==
    IF version = "ai-service.js"
    THEN [throws |-> FALSE, value |-> CleanImprovedText(generated)]
    ELSE IF generated = << >>
    THEN [throws |-> TRUE,
          value |-> <<"AI service returned empty response">>]
    ELSE [throws |-> FALSE, value |-> CleanGPT2Response(generated, text)]

\* the gateway answers invocation i with an HTTP status
GatewayResponds(i, status, generated) ==
    /\ i \in 1..Len(aiPending)
    /\ \E version \in ServiceVersions :
          IF status = 200
          THEN LET outcome == ImproveOutcome(version, generated,
                                             aiPending[i].text)
               IN  IF outcome.throws
                   THEN AssistFailed(i, outcome.value)
                   ELSE AssistResolved(i, outcome.value)
          ELSE AssistFailed(i, ResponseError(version, status))

\* fetch rejects: the gateway could not be reached
FetchRejects(i, message) ==
    /\ i \in 1..Len(aiPending)
    /\ \E version \in ServiceVersions :
          AssistFailed(i, FetchError(version, message))

\* ------------------------------------------------------------ gateway
\* The two Netlify functions. An invocation is run twice, side by side, on
\* the same event and with the same answer of the upstream API, under two
\* values of the credential the function reads from process.env.
Functions == {"improve-text", "improve-text-simple"}
Methods == {"OPTIONS", "GET", "POST"}
Unset == ""
Credentials == {Unset, "key-A", "key-B"}
Runs == 1..2

\* event.body: absent, not JSON, an object without text, or an object
\* with a text
RequestTexts == {<< >>, <<" ">>, <<"test">>, <<"x">>}
Bodies ==
    {[kind |-> k, text |-> << >>] : k \in {"null", "malformed", "no text"}}
        \cup {[kind |-> "text", text |-> t] : t \in RequestTexts}

\* what the upstream API does with a request: fetch rejects, the response
\* is not ok, the response is ok but its body is not JSON, or the response
\* is ok and carries a candidate text (empty when it carries none)
UpstreamStatuses == {400, 401, 403, 404, 429, 503}
CandidateTexts == {<< >>, <<" ">>, <<"z">>, <<" ", "z", " ">>}
UpstreamOutcomes ==
    {[kind |-> "rejects", status |-> 0, text |-> << >>],
     [kind |-> "not json", status |-> 200, text |-> << >>]}
        \cup {[kind |-> "not ok", status |-> st, text |-> << >>] :
                 st \in UpstreamStatuses}
        \cup {[kind |-> "ok", status |-> 200, text |-> t] :
                 t \in CandidateTexts}

NotInvoked == [stage |-> "idle"]

\* the request the function sends upstream: the credential travels in the
\* URL (improve-text) or in the Authorization header (improve-text-simple)
UpstreamRequest(fn, key) ==
    IF fn = "improve-text"
    THEN [url |-> <<"generativelanguage.googleapis.com?key=", key>>,
          authorization |-> << >>]
    ELSE [url |-> <<"api-inference.huggingface.co">>,
          authorization |-> <<"Bearer ", key>>]

\* headers of a JSON response
JsonHeaders(fn) ==
    IF fn = "improve-text"
    THEN {"Content-Type", "Access-Control-Allow-Origin"}
    ELSE {"Access-Control-Allow-Origin"}

NoBody == [fields |-> {}, error |-> "", details |-> << >>,
           generated_text |-> << >>]

\* JSON.stringify({ error }) and JSON.stringify({ error, details })
ErrorBody(error) == [NoBody EXCEPT !.fields = {"error"}, !.error = error]
ErrorDetailsBody(error, details) ==
    [NoBody EXCEPT !.fields = {"error", "details"}, !.error = error,
                   !.details = details]

\* JSON.stringify({ generated_text, success, ... })
SuccessBody(fn, text) ==
    [NoBody EXCEPT !.fields = IF fn = "improve-text"
                              THEN {"generated_text", "success", "model"}
                              ELSE {"generated_text", "success"},
                   !.generated_text = text]

\* the body that answers the text 'test'
TestBody(fn) ==
    IF fn = "improve-text"
    THEN [NoBody EXCEPT !.fields = {"success", "message", "generated_text"},
                        !.generated_text = <<"Gemini test successful!">>]
    ELSE [NoBody EXCEPT !.fields = {"success", "generated_text"},
                        !.generated_text =
                            <<"Simple test successful - function working">>]

Response(status, headers, body) ==
    [statusCode |-> status, headers |-> headers, body |-> body]

\* a preflight answer with status 204
Preflight_NoContent ==
    Response(204, {"Access-Control-Allow-Origin",
                   "Access-Control-Allow-Headers",
                   "Access-Control-Allow-Methods"}, NoBody)

\* the answer to a CORS preflight request
Preflight ==
    Response(200, {"Access-Control-Allow-Origin",
                   "Access-Control-Allow-Headers",
                   "Access-Control-Allow-Methods"}, NoBody)

\* a catch branch that answers 500 with nothing in the body
InternalError_Bare(fn, message) == Response(500, JsonHeaders(fn), NoBody)

\* the catch branch of the handler
InternalError(fn, message) ==
    Response(500, JsonHeaders(fn),
             ErrorDetailsBody(IF fn = "improve-text"
                              THEN "Internal server error"
                              ELSE "Internal error", message))

\* a handler that lets every method through
MethodAllowed_AnyButOptions(method) == TRUE

\* if (event.httpMethod !== 'POST')
MethodAllowed(method) == method = "POST"

\* an error message that names the URL of the request
FetchFailureMessage_NamingUrl(request) ==
    <<"request to ">> \o request.url \o <<" failed">>

\* error.message of the TypeError a rejected fetch throws
FetchFailureMessage(request) == <<"fetch failed">>

\* fixMarkdownFormatting / forceProperFormatting for a text that carries no
\* header, bullet or line break: every replace leaves it as it is
FixMarkdownFormatting(text) == Trim(text)

\* The handler up to its first return or to its fetch: the response it
\* returns, or the request it sends upstream.
HandlerStart(fn, method, body, key) ==
    IF method = "OPTIONS"
    THEN [response |-> Preflight, requests |-> << >>]
    ELSE IF ~MethodAllowed(method)
    THEN [response |-> Response(405,
                         IF fn = "improve-text"
                         THEN {"Access-Control-Allow-Origin", "Content-Type"}
                         ELSE {"Access-Control-Allow-Origin"},
                         ErrorBody("Method not allowed")),
          requests |-> << >>]
    ELSE IF body.kind = "malformed"
    THEN [response |-> InternalError(fn, <<"Unexpected token">>),
          requests |-> << >>]
    ELSE IF body.kind = "null"
    THEN [response |->
              InternalError(fn, <<"Cannot destructure property 'text'">>),
          requests |-> << >>]
    ELSE IF body.kind = "no text" \/ body.text = << >>
              \/ Trim(body.text) = << >>
    THEN [response |-> Response(400, JsonHeaders(fn),
                                ErrorBody("Text is required")),
          requests |-> << >>]
    ELSE IF body.text = <<"test">>
    THEN [response |->
              Response(200, {"Content-Type", "Access-Control-Allow-Origin"},
                       TestBody(fn)),
          requests |-> << >>]
    ELSE IF key = Unset
    THEN [response |->
              Response(500, JsonHeaders(fn),
                       IF fn = "improve-text"
                       THEN ErrorDetailsBody("AI service configuration error",
                               <<"GOOGLE_AI_STUDIO_API_KEY environment variable not set">>)
                       ELSE ErrorBody("HF token not configured")),
          requests |-> << >>]
    ELSE [response |-> Response(0, {}, NoBody),
          requests |-> <<UpstreamRequest(fn, key)>>]

\* The handler from the point where its fetch settles.
HandlerResume(fn, request, outcome) ==
    LET errorText == <<"errorText">> IN
    IF outcome.kind = "rejects"
    THEN InternalError(fn, FetchFailureMessage(request))
    ELSE IF outcome.kind = "not ok" /\ fn = "improve-text-simple"
    THEN Response(outcome.status, JsonHeaders(fn),
                  ErrorDetailsBody("HF API error: " \o ToString(outcome.status),
                                   errorText))
    ELSE IF outcome.kind = "not ok"
    THEN IF outcome.status = 400
         THEN Response(400, JsonHeaders(fn),
                       ErrorDetailsBody("Invalid request to Gemini API",
                                        errorText))
         ELSE IF outcome.status = 403
         THEN Response(403, JsonHeaders(fn),
                       ErrorDetailsBody("API key invalid or quota exceeded",
                            <<"Check your Google AI Studio API key">>))
         ELSE IF outcome.status = 429
         THEN Response(429, JsonHeaders(fn),
                       ErrorDetailsBody("Rate limit exceeded",
                            <<"Please wait a moment and try again">>))
         ELSE Response(outcome.status, JsonHeaders(fn),
                       ErrorDetailsBody(
                           "Gemini API error: " \o ToString(outcome.status),
                           errorText))
    ELSE IF outcome.kind = "not json"
    THEN InternalError(fn, <<"Unexpected end of JSON input">>)
    ELSE IF fn = "improve-text-simple"
    THEN Response(200, {"Content-Type", "Access-Control-Allow-Origin"},
                  SuccessBody(fn, outcome.text))
    ELSE IF outcome.text = << >>
    THEN Response(500, JsonHeaders(fn),
                  ErrorDetailsBody("Gemini returned empty response",
                                   <<"No text generated">>))
    ELSE Response(200, {"Content-Type", "Access-Control-Allow-Origin",
                        "Access-Control-Allow-Headers",
                        "Access-Control-Allow-Methods"},
                  SuccessBody(fn, FixMarkdownFormatting(Trim(outcome.text))))

NoOutcome == [kind |-> "none", status |-> 0, text |-> << >>]

\* exports.handler(event) is invoked and runs to its return or its fetch
GatewayInvoke(fn, method, body, keys) ==
    LET start == [r \in Runs |-> HandlerStart(fn, method, body, keys[r])] IN
    /\ gateway.stage = "idle"
    /\ gateway' =
         [stage |-> IF \E r \in Runs : start[r].requests # << >>
                    THEN "upstream" ELSE "done",
          fn |-> fn, method |-> method, body |-> body, keys |-> keys,
          outcome |-> NoOutcome,
          requests |-> [r \in Runs |-> start[r].requests],
          responses |-> [r \in Runs |-> start[r].response]]
    /\ UNCHANGED <<selectCall, now, clockSkew, scan, detector, failure, render, enter, store, nextId, notes,
                   currentNoteId, noteTitle, editorHtml, view, saveStatus,
                   saveTimeout, timeouts, statusTimers, pending, isProcessing,
                   aiPending, autoSave, gestures>>

\* the upstream fetch settles and the handler runs to its return
UpstreamAnswers(outcome) ==
    /\ gateway.stage = "upstream"
    /\ gateway' =
         [gateway EXCEPT
            !.stage = "done",
            !.outcome = outcome,
            !.responses =
               [r \in Runs |->
                  IF gateway.requests[r] = << >>
                  THEN gateway.responses[r]
                  ELSE HandlerResume(gateway.fn, gateway.requests[r][1],
                                     outcome)]]
    /\ UNCHANGED <<selectCall, now, clockSkew, scan, detector, failure, render, enter, store, nextId, notes,
                   currentNoteId, noteTitle, editorHtml, view, saveStatus,
                   saveTimeout, timeouts, statusTimers, pending, isProcessing,
                   aiPending, autoSave, gestures>>

\* ----------------------------------------------------- markdown renderer
\* Text is a sequence of tokens: a character, or a piece of markup
\* taken as a whole.  What a regular expression of the code does to text
\* is computed token by token, with the greedy, backtracking, leftmost
\* matching of JavaScript.
IsNewline(c) == c = "\n"
IsHash(c) == c = "#"
IsHyphen(c) == c = "-"

\* whether the character class of a regular expression accepts token c
Accepts(class, c) ==
    CASE class = "\\s" -> IsSpace(c)
      [] class = "." -> ~IsNewline(c)
      [] class = "#" -> IsHash(c)
      [] class = "\\n" -> IsNewline(c)
      [] class = "[^-\\n]" -> ~IsHyphen(c) /\ ~IsNewline(c)
      [] class = " " -> c = " "

\* how many tokens from position i on are accepted by class, at most limit
RECURSIVE Run(_, _, _, _)
Run(s, i, class, limit) ==
    IF limit > 0 /\ i <= Len(s) /\ Accepts(class, s[i])
    THEN 1 + Run(s, i + 1, class, limit - 1)
    ELSE 0

WsRun(s, i) == Run(s, i, "\\s", Len(s))
DotRun(s, i) == Run(s, i, ".", Len(s))
HashRun(s, i) == Run(s, i, "#", 6)
NewlineRun(s, i) == Run(s, i, "\\n", Len(s))

\* ^ under the m flag
LineStart(s, i) == i = 1 \/ IsNewline(s[i - 1])

\* the first alternative a backtracking matcher accepts: quantifiers are
\* greedy, the leftmost quantifier gives way last
Greediest(alternatives) ==
    CHOOSE m \in alternatives :
        \A n \in alternatives :
            \/ n = m
            \/ \E k \in 1..Len(m) :
                  /\ n[k] < m[k]
                  /\ \A j \in 1..(k - 1) : n[j] = m[j]

\* /^(#{1,6})\s*(.+)$/gm at position i: <<hashes, spaces>> of each way
\* the match can go; .+ then runs to the end of the line
HeaderSpacingAt(s, i) ==
    IF ~LineStart(s, i) THEN {}
    ELSE {<<h, w>> \in (1..HashRun(s, i)) \X (0..Len(s)) :
              /\ w <= WsRun(s, i + h)
              /\ DotRun(s, i + h + w) >= 1}

\* .replace(/^(#{1,6})\s*(.+)$/gm, '$1 $2\n')
RECURSIVE HeaderSpacing(_, _)
HeaderSpacing(s, i) ==
    IF i > Len(s) THEN << >>
    ELSE IF HeaderSpacingAt(s, i) = {}
    THEN <<s[i]>> \o HeaderSpacing(s, i + 1)
    ELSE LET m == Greediest(HeaderSpacingAt(s, i))
             p == i + m[1] + m[2]
             e == p + DotRun(s, p)
         IN SubSeq(s, i, i + m[1] - 1) \o <<" ">> \o SubSeq(s, p, e - 1)
               \o <<"\n">> \o HeaderSpacing(s, e)

\* /([^\n])\s*(-\s*)/g matches at i: the white space after [^\n] is
\* followed by a hyphen
BulletBreakAt(s, i) ==
    /\ ~IsNewline(s[i])
    /\ i + 1 + WsRun(s, i + 1) <= Len(s)
    /\ IsHyphen(s[i + 1 + WsRun(s, i + 1)])

\* .replace(/([^\n])\s*(-\s*)/g, '$1\n\n$2')
RECURSIVE BulletBreak(_, _)
BulletBreak(s, i) ==
    IF i > Len(s) THEN << >>
    ELSE IF ~BulletBreakAt(s, i)
    THEN <<s[i]>> \o BulletBreak(s, i + 1)
    ELSE LET h == i + 1 + WsRun(s, i + 1)
             e == h + 1 + WsRun(s, h + 1)
         IN <<s[i], "\n", "\n">> \o SubSeq(s, h, e - 1) \o BulletBreak(s, e)

\* /(-\s*[^-\n]+)\s+(-\s*)/g at position i: <<spaces, others>> of each
\* way the first group can match so that white space and a hyphen follow
InlineBulletAt(s, i) ==
    IF ~IsHyphen(s[i]) THEN {}
    ELSE {<<a, b>> \in (0..Len(s)) \X (1..Len(s)) :
              /\ a <= WsRun(s, i + 1)
              /\ b <= Run(s, i + 1 + a, "[^-\\n]", Len(s))
              /\ WsRun(s, i + 1 + a + b) >= 1
              /\ i + 1 + a + b + WsRun(s, i + 1 + a + b) <= Len(s)
              /\ IsHyphen(s[i + 1 + a + b + WsRun(s, i + 1 + a + b)])}

\* .replace(/(-\s*[^-\n]+)\s+(-\s*)/g, '$1\n$2')
RECURSIVE InlineBullet(_, _)
InlineBullet(s, i) ==
    IF i > Len(s) THEN << >>
    ELSE IF InlineBulletAt(s, i) = {}
    THEN <<s[i]>> \o InlineBullet(s, i + 1)
    ELSE LET m == Greediest(InlineBulletAt(s, i))
             q == i + 1 + m[1] + m[2]
             h == q + WsRun(s, q)
             e == h + 1 + WsRun(s, h + 1)
         IN SubSeq(s, i, q - 1) \o <<"\n">> \o SubSeq(s, h, e - 1)
               \o InlineBullet(s, e)

\* (?!\n\n) at position q
NotBeforeBlankLine(s, q) ==
    ~(q + 1 <= Len(s) /\ IsNewline(s[q]) /\ IsNewline(s[q + 1]))

\* /^(#{1,6}\s*.+)(?!\n\n)/gm at position i: <<hashes, spaces, others>>
\* of each way the match can go
HeaderBreakAt(s, i) ==
    IF ~LineStart(s, i) THEN {}
    ELSE {<<h, w, d>> \in (1..HashRun(s, i)) \X (0..Len(s)) \X (1..Len(s)) :
              /\ w <= WsRun(s, i + h)
              /\ d <= DotRun(s, i + h + w)
              /\ NotBeforeBlankLine(s, i + h + w + d)}

\* .replace(/^(#{1,6}\s*.+)(?!\n\n)/gm, '$1\n')
RECURSIVE HeaderBreak(_, _)
HeaderBreak(s, i) ==
    IF i > Len(s) THEN << >>
    ELSE IF HeaderBreakAt(s, i) = {}
    THEN <<s[i]>> \o HeaderBreak(s, i + 1)
    ELSE LET m == Greediest(HeaderBreakAt(s, i))
             q == i + m[1] + m[2] + m[3]
         IN SubSeq(s, i, q - 1) \o <<"\n">> \o HeaderBreak(s, q)

\* .replace(/\n{4,}/g, '\n\n\n')
RECURSIVE CapNewlines(_, _)
CapNewlines(s, i) ==
    IF i > Len(s) THEN << >>
    ELSE IF NewlineRun(s, i) >= 4
    THEN <<"\n", "\n", "\n">> \o CapNewlines(s, i + NewlineRun(s, i))
    ELSE <<s[i]>> \o CapNewlines(s, i + 1)

\* NotesApp.preprocessMarkdown
PreprocessMarkdown(content) ==
    CapNewlines(
        HeaderBreak(
            InlineBullet(
                BulletBreak(HeaderSpacing(content, 1), 1), 1), 1), 1)

\* MarkdownRenderer.preprocessMarkdown: the same after content.trim()
RendererPreprocessMarkdown(content) == PreprocessMarkdown(Trim(content))

\* Markup the model's texts can carry, each piece one token: the tags the
\* renderers produce, and pieces of HTML a model output can contain.
ScriptElement == "<script>alert(1)</script>"
ImgWithHandler == "<img src=x onerror='a'>"
Markup ==
    {"<p>", "</p>", "<br>", "<h1>", "</h1>", "<h2>", "</h2>", "<h3>",
     "</h3>", "<li>", "</li>", "<form>", ScriptElement, ImgWithHandler,
     "<img src=x >", "<img src=\"x\">"}
TagName(tok) ==
    CASE tok \in {"<p>", "</p>"} -> "p"
      [] tok = "<br>" -> "br"
      [] tok \in {"<h1>", "</h1>"} -> "h1"
      [] tok \in {"<h2>", "</h2>"} -> "h2"
      [] tok \in {"<h3>", "</h3>"} -> "h3"
      [] tok \in {"<li>", "</li>"} -> "li"
      [] tok = "<form>" -> "form"
      [] tok = ScriptElement -> "script"
      [] OTHER -> "img"
AttrNames(tok) ==
    IF tok = ImgWithHandler THEN {"src", "onerror"}
    ELSE IF TagName(tok) = "img" THEN {"src"}
    ELSE {}

\* the configuration renderWithMarked hands to DOMPurify.sanitize
ALLOWED_TAGS ==
    {"h1", "h2", "h3", "h4", "h5", "h6", "p", "br", "strong", "em", "u",
     "del", "ul", "ol", "li", "blockquote", "code", "pre", "a", "img"}
ALLOWED_ATTR == {"href", "title", "alt", "src"}

\* DOMPurify.sanitize(rawHTML, { ALLOWED_TAGS, ALLOWED_ATTR, ... }): an
\* element outside the list is removed, a script element with its
\* content; an attribute outside the list is removed from its element
Sanitize(html) ==
    LET kept == SelectSeq(html, LAMBDA tok :
                    tok \notin Markup \/ TagName(tok) \in ALLOWED_TAGS)
    IN [k \in 1..Len(kept) |->
          IF kept[k] \in Markup /\ ~(AttrNames(kept[k]) \subseteq ALLOWED_ATTR)
          THEN "<img src=\"x\">"
          ELSE kept[k]]

\* MarkdownRenderer.basicSanitize: script and iframe elements are cut
\* out, and so is an on...= attribute with a quoted value
BasicSanitize(html) ==
    LET kept == SelectSeq(html, LAMBDA tok : tok # ScriptElement)
    IN [k \in 1..Len(kept) |->
          IF kept[k] = ImgWithHandler THEN "<img src=x >" ELSE kept[k]]

\* marked.parse and showdown's makeHtml are library code; of what they
\* do the model keeps that the text comes out as a paragraph and that
\* HTML written in the markdown source is passed through to the output
MarkedParse(markdown) == <<"<p>">> \o markdown \o <<"</p>">>
MakeHtml(markdown) == <<"<p>">> \o markdown \o <<"</p>">>

\* MarkdownRenderer.renderWithMarked
RenderWithMarked(markdown) == Sanitize(MarkedParse(markdown))

\* MarkdownRenderer.renderWithShowdown
RenderWithShowdown(markdown) == BasicSanitize(MakeHtml(markdown))

\* the line at i begins with prefix
LinePrefix(s, i, prefix) ==
    /\ LineStart(s, i)
    /\ i + Len(prefix) - 1 <= Len(s)
    /\ SubSeq(s, i, i + Len(prefix) - 1) = prefix

\* .replace(/^prefix(.*$)/gm, 'open$1close')
RECURSIVE WrapLines(_, _, _, _, _)
WrapLines(s, i, prefix, open, close) ==
    IF i > Len(s) THEN << >>
    ELSE IF ~LinePrefix(s, i, prefix)
    THEN <<s[i]>> \o WrapLines(s, i + 1, prefix, open, close)
    ELSE LET p == i + Len(prefix)
             e == p + DotRun(s, p)
         IN <<open>> \o SubSeq(s, p, e - 1) \o <<close>>
               \o WrapLines(s, e, prefix, open, close)

\* .replace(/\n/g, '<br>')
LineBreaks(s) == [k \in 1..Len(s) |-> IF IsNewline(s[k]) THEN "<br>" ELSE s[k]]

\* MarkdownRenderer.renderPlainText, for text without asterisks
RenderPlainText(markdown) ==
    LineBreaks(
        WrapLines(
            WrapLines(
                WrapLines(
                    WrapLines(markdown, 1, <<"#", "#", "#", " ">>,
                              "<h3>", "</h3>"),
                    1, <<"#", "#", " ">>, "<h2>", "</h2>"),
                1, <<"#", " ">>, "<h1>", "</h1>"),
            1, <<"-", " ">>, "<li>", "</li>"))

\* which of marked, DOMPurify and showdown the page has loaded
Libraries == [marked : BOOLEAN, DOMPurify : BOOLEAN, showdown : BOOLEAN]

\* texts a model can answer with
ModelOutputs ==
    {<< >>,
     <<"z">>,
     <<"<form>", "z">>,
     <<"#", " ", "z", "\n", ScriptElement>>,
     <<"-", " ", "z", " ", ImgWithHandler>>}
MarkdownStrings == ModelOutputs

NotRendered == [stage |-> "idle"]

\* the renderer renderMarkdown chooses
Renderer(has) ==
    IF has.marked /\ has.DOMPurify THEN "marked"
    ELSE IF has.showdown THEN "showdown"
    ELSE "plain"

\* MarkdownRenderer.renderMarkdown(markdownString, responseContainer),
\* for a container that is an element, in a page that has loaded the
\* libraries `has`
RenderMarkdown(markdownString, has) ==
    LET processedMarkdown == RendererPreprocessMarkdown(markdownString)
        htmlString ==
            IF markdownString = << >>
            THEN <<"<p>", "No content to display", "</p>">>
            ELSE IF Renderer(has) = "marked"
            THEN RenderWithMarked(processedMarkdown)
            ELSE IF Renderer(has) = "showdown"
            THEN RenderWithShowdown(processedMarkdown)
            ELSE RenderPlainText(processedMarkdown)
    IN
    /\ render = NotRendered
    /\ render' = [stage |-> "done",
                  markdownString |-> markdownString,
                  renderer |-> IF markdownString = << >> THEN "none"
                               ELSE Renderer(has),
                  innerHTML |-> htmlString]
    /\ UNCHANGED <<selectCall, now, clockSkew, scan, detector, failure, enter, gateway, store, nextId,
                   notes, currentNoteId, noteTitle, editorHtml, view,
                   saveStatus, saveTimeout, timeouts, statusTimers, pending,
                   isProcessing, aiPending, autoSave, gestures>>

\* forceProperFormatting: what the loop pushes for one (trimmed) line
\* the token for the character U+2022, the bullet
Bullet == "U+2022"
IsBullet(line) == line # << >> /\ Head(line) \in {Bullet, "-"}
IsTitle(line) == line # << >> /\ ~IsBullet(line) /\ Len(line) > 3
\* line.replace(/^[U+2022\-]\s*/, '')
BulletText(line) == TrimStart(Tail(line))

RECURSIVE ForceLines(_, _)
ForceLines(lines, result) ==
    IF lines = << >> THEN result
    ELSE LET line == Trim(Head(lines)) IN
         ForceLines(Tail(lines),
            IF line = << >> THEN Append(result, << >>)
            ELSE IF IsTitle(line)
            THEN (IF result # << >> /\ result[Len(result)] # << >>
                  THEN Append(result, << >>) ELSE result)
                    \o <<line, << >>>>
            ELSE IF IsBullet(line)
            THEN Append(result, <<" ", " ", " ", " ", Bullet, " ">>
                                   \o BulletText(line))
            ELSE Append(result, line))

\* forceProperFormatting
ForceProperFormatting(text) ==
    CapNewlines(JoinLines(ForceLines(SplitLines(text), << >>)), 1)

\* The normalizers of the repository
Normalizers ==
    {"MarkdownRenderer.preprocessMarkdown", "NotesApp.preprocessMarkdown",
     "forceProperFormatting"}
Normalize(normalizer, text) ==
    CASE normalizer = "MarkdownRenderer.preprocessMarkdown" ->
            RendererPreprocessMarkdown(text)
      [] normalizer = "NotesApp.preprocessMarkdown" ->
            PreprocessMarkdown(text)
      [] OTHER -> ForceProperFormatting(text)

\* Text in canonical block form: blocks with one blank line between
\* them; a block is a paragraph, a header or a list, one bullet a line.
Blocks ==
    {<<"b">>, <<"b", "o", "d", "y">>, <<"#", " ", "T", "i">>,
     <<"-", " ", "a", "\n", "-", " ", "b">>}
RECURSIVE JoinBlocks(_)
JoinBlocks(bs) ==
    IF Len(bs) = 1 THEN bs[1]
    ELSE bs[1] \o <<"\n", "\n">> \o JoinBlocks(Tail(bs))
CanonicalTexts ==
    {JoinBlocks(bs) : bs \in UNION {[1..n -> Blocks] : n \in 1..MaxBlocks}}

\* a normalizer is applied to a text
NormalizeText(normalizer, text) ==
    /\ render = NotRendered
    /\ render' = [stage |-> "normalized",
                  normalizer |-> normalizer,
                  text |-> text,
                  passes |-> <<Normalize(normalizer, text)>>]
    /\ UNCHANGED <<selectCall, now, clockSkew, scan, detector, failure, enter, gateway, store, nextId,
                   notes, currentNoteId, noteTitle, editorHtml, view,
                   saveStatus, saveTimeout, timeouts, statusTimers, pending,
                   isProcessing, aiPending, autoSave, gestures>>

\* and applied again to what it returned
NormalizeAgain ==
    /\ render.stage = "normalized"
    /\ Len(render.passes) < MaxPasses
    /\ render' = [render EXCEPT !.passes =
                     Append(@, Normalize(render.normalizer, @[Len(@)]))]
    /\ UNCHANGED <<selectCall, now, clockSkew, scan, detector, failure, enter, gateway, store, nextId,
                   notes, currentNoteId, noteTitle, editorHtml, view,
                   saveStatus, saveTimeout, timeouts, statusTimers, pending,
                   isProcessing, aiPending, autoSave, gestures>>

\* ------------------------------------- token-based fixMarkdownFormatting
\* The gateway function improve-text.js holds a fixMarkdownFormatting that
\* scans the normalized text into tokens and rebuilds it.  One action per
\* iteration of its scanning loop; i is the index of the source, from 0.
NotScanning == [stage |-> "idle"]

\* normalized[i]: undefined outside the string
CharAt(s, i) == IF i >= 0 /\ i < Len(s) THEN s[i + 1] ELSE "undefined"

\* text.replace(/\s+/g, ' ')
RECURSIVE CollapseWhitespace(_)
CollapseWhitespace(s) ==
    IF s = << >> THEN << >>
    ELSE IF IsSpace(Head(s))
    THEN <<" ">> \o CollapseWhitespace(TrimStart(s))
    ELSE <<Head(s)>> \o CollapseWhitespace(Tail(s))

\* result.replace(/\n{3,}/g, '\n\n')
RECURSIVE CollapseNewlines(_)
CollapseNewlines(s) ==
    IF s = << >> THEN << >>
    ELSE IF NewlineRun(s, 1) >= 3
    THEN <<"\n", "\n">>
         \o CollapseNewlines(SubSeq(s, NewlineRun(s, 1) + 1, Len(s)))
    ELSE <<Head(s)>> \o CollapseNewlines(Tail(s))

\* normalized.substring(i).match(/^\s*(#{1,6}|\*|\-)/)
MarkerAhead(s, i) ==
    CharAt(s, i + WsRun(s, i + 1)) \in {"#", "*", "-"}

\* while (i < normalized.length && !...match(...)) i++ : where it stops
RECURSIVE TextEnd(_, _)
TextEnd(s, i) ==
    IF i < Len(s) /\ ~MarkerAhead(s, i) THEN TextEnd(s, i + 1) ELSE i

\* while (normalized[i] === '#' && headerLevel < 6) { headerLevel++; i++ }
HeaderLevel(s, i) == HashRun(s, i + 1)

\* while (i < normalized.length && normalized[i] === ' ') i++
SkipSpaces(s, i) == i + Run(s, i + 1, " ", Len(s))

\* a step back that leaves the index before the token just read
BackUp_Two(i) == i - 2

\* i--; // Back up one
BackUp(i) == i - 1

\* if (current.trim()) { tokens.push({type: 'text', ...}); current = '' }
FlushCurrent(tokens, current) ==
    IF Trim(current) # << >>
    THEN [tokens |-> Append(tokens, [type |-> "text", level |-> 0,
                                     content |-> Trim(current)]),
          current |-> << >>]
    ELSE [tokens |-> tokens, current |-> current]

\* '#'.repeat(level)
RECURSIVE Repeat(_, _)
Repeat(c, n) == IF n <= 0 THEN << >> ELSE <<c>> \o Repeat(c, n - 1)

\* result.endsWith(suffix)
EndsWith(s, suffix) ==
    /\ Len(s) >= Len(suffix)
    /\ SubSeq(s, Len(s) - Len(suffix) + 1, Len(s)) = suffix

\* Step 3: the text rebuilt from tokens k.. onto result
RECURSIVE Rebuild(_, _, _)
Rebuild(tokens, k, result) ==
    IF k > Len(tokens) THEN result
    ELSE
    LET token == tokens[k]
        separated == IF result # << >> /\ ~EndsWith(result, <<"\n", "\n">>)
                     THEN result \o <<"\n", "\n">> ELSE result
    IN
    IF token.type = "header"
    THEN Rebuild(tokens, k + 1,
                 separated \o Repeat("#", token.level) \o <<" ">>
                           \o token.content \o <<"\n", "\n">>)
    ELSE IF token.type = "bullet"
    THEN Rebuild(tokens, k + 1,
                 (IF k = 1 \/ tokens[k - 1].type # "bullet"
                  THEN separated ELSE result)
                 \o <<"-", " ">> \o token.content \o <<"\n">>)
    ELSE Rebuild(tokens, k + 1,
                 (IF result # << >> /\ ~EndsWith(result, <<"\n", "\n">>)
                     /\ ~EndsWith(result, <<"\n">>)
                  THEN result \o <<"\n", "\n">> ELSE result)
                 \o token.content \o <<"\n", "\n">>)

\* texts the function is called with: every string of up to MaxScanLen of
\* these characters, and longer ones with more than six hashes in a row
ScanAlphabet == {"#", "-", "*", " ", "\n", "a"}
ScanTexts ==
    UNION {[1..n -> ScanAlphabet] : n \in 0..MaxScanLen}
    \cup {<<"#", "#", "#", "#", "#", "#", "#", " ", "a">>,
          <<"a", " ", "#", "#", "#", "#", "#", "#", "#", "#", "-">>}

\* fixMarkdownFormatting(text) up to its scanning loop
FixMarkdownCall(text) ==
    /\ scan = NotScanning
    /\ scan' = [stage |-> "scanning",
                normalized |-> Trim(CollapseWhitespace(text)),
                i |-> 0, current |-> << >>, tokens |-> << >>]
    /\ UNCHANGED <<now, clockSkew, store, nextId, notes, currentNoteId,
                   noteTitle, editorHtml, view, saveStatus, saveTimeout,
                   timeouts, statusTimers, pending, isProcessing, aiPending,
                   autoSave, gestures, selectCall, enter, gateway, render,
                   failure, detector>>

\* one iteration of for (let i = 0; i < normalized.length; i++): its body
\* and the i++ that follows it, also after a continue
ScanIteration ==
    LET s == scan.normalized
        i == scan.i
        char == CharAt(s, i)
        atStart == i = 0 \/ CharAt(s, i - 1) = " "
        flushed == FlushCurrent(scan.tokens, scan.current)
        headerFrom == i + HeaderLevel(s, i)
        headerEnd == TextEnd(s, headerFrom)
        bulletFrom == SkipSpaces(s, i + 1)
        bulletEnd == TextEnd(s, bulletFrom)
    IN
    /\ scan.stage = "scanning"
    /\ i < Len(s)
    /\ scan' =
         IF char = "#" /\ atStart
         THEN [scan EXCEPT
                 !.tokens = Append(flushed.tokens,
                              [type |-> "header",
                               level |-> HeaderLevel(s, i),
                               content |-> Trim(SubSeq(s, headerFrom + 1,
                                                       headerEnd))]),
                 !.current = flushed.current,
                 !.i = BackUp(headerEnd) + 1]
         ELSE IF char \in {"-", "*"} /\ atStart
         THEN [scan EXCEPT
                 !.tokens = Append(flushed.tokens,
                              [type |-> "bullet", level |-> 0,
                               content |-> Trim(SubSeq(s, bulletFrom + 1,
                                                       bulletEnd))]),
                 !.current = flushed.current,
                 !.i = BackUp(bulletEnd) + 1]
         ELSE [scan EXCEPT !.current = Append(@, char), !.i = i + 1]
    /\ UNCHANGED <<now, clockSkew, store, nextId, notes, currentNoteId,
                   noteTitle, editorHtml, view, saveStatus, saveTimeout,
                   timeouts, statusTimers, pending, isProcessing, aiPending,
                   autoSave, gestures, selectCall, enter, gateway, render,
                   failure, detector>>

\* the loop has ended: the remaining text is added, the text is rebuilt
\* from the tokens and returned
ScanReturns ==
    LET tokens == FlushCurrent(scan.tokens, scan.current).tokens IN
    /\ scan.stage = "scanning"
    /\ scan.i >= Len(scan.normalized)
    /\ scan' = [stage |-> "returned",
                normalized |-> scan.normalized,
                i |-> scan.i,
                tokens |-> tokens,
                result |-> Trim(CollapseNewlines(Rebuild(tokens, 1, << >>)))]
    /\ UNCHANGED <<now, clockSkew, store, nextId, notes, currentNoteId,
                   noteTitle, editorHtml, view, saveStatus, saveTimeout,
                   timeouts, statusTimers, pending, isProcessing, aiPending,
                   autoSave, gestures, selectCall, enter, gateway, render,
                   failure, detector>>

\* ------------------------------------------------ double-Enter detectors
\* The code holds four keydown handlers that recognise a double press of
\* Enter.  Each is fed here with presses on its own; the handler it
\* invokes on a double press is only counted.
Detectors == {"addDoubleEnterDetection", "initializeFallbackEditor",
              "handleKeyDown", "DoubleEnterAI.addKeyboardShortcuts"}
\* the detectors that set lastEnterTime = 0 after a double press
Resets(which) ==
    which \in {"addDoubleEnterDetection", "DoubleEnterAI.addKeyboardShortcuts"}
Unattached == [which |-> "none"]

\* the listener is attached: let lastEnterTime = 0
AttachDetector(which) ==
    /\ detector = Unattached
    /\ detector' = [which |-> which, lastEnterTime |-> 0, presses |-> 0,
                    triggers |-> 0, awaiting |-> << >>, previous |-> 0]
    /\ UNCHANGED <<now, clockSkew, scan, store, nextId, notes, currentNoteId,
                   noteTitle, editorHtml, view, saveStatus, saveTimeout,
                   timeouts, statusTimers, pending, isProcessing, aiPending,
                   autoSave, gestures, selectCall, enter, gateway, render,
                   failure>>

\* keydown with key 'Enter', some time after the press before it (at
\* previous).  handleKeyDown writes this.lastEnterTime after its await,
\* the others before they return.
DetectorEnter ==
    LET timeDiff == DateNow - detector.lastEnterTime
        recognised == IsDoublePress(timeDiff)
        which == detector.which
    IN
    /\ which # "none"
    /\ detector.presses < MaxPresses
    /\ DateNow > detector.previous
    /\ detector' =
          [detector EXCEPT
             !.presses = @ + 1,
             !.previous = DateNow,
             !.triggers = IF recognised THEN @ + 1 ELSE @,
             !.lastEnterTime =
                 IF recognised /\ Resets(which) THEN 0
                 ELSE IF recognised /\ which = "handleKeyDown" THEN @
                 ELSE DateNow,
             !.awaiting =
                 IF recognised /\ which = "handleKeyDown"
                 THEN Append(@, DateNow) ELSE @]
    /\ UNCHANGED <<now, clockSkew, scan, store, nextId, notes, currentNoteId,
                   noteTitle, editorHtml, view, saveStatus, saveTimeout,
                   timeouts, statusTimers, pending, isProcessing, aiPending,
                   autoSave, gestures, selectCall, enter, gateway, render,
                   failure>>

\* handleKeyDown resumes after await this.improveTextWithAI()
DetectorResume(i) ==
    /\ detector.which = "handleKeyDown"
    /\ i \in 1..Len(detector.awaiting)
    /\ detector' = [detector EXCEPT
                       !.lastEnterTime = detector.awaiting[i],
                       !.awaiting = RemoveAt(@, i)]
    /\ UNCHANGED <<now, clockSkew, scan, store, nextId, notes, currentNoteId,
                   noteTitle, editorHtml, view, saveStatus, saveTimeout,
                   timeouts, statusTimers, pending, isProcessing, aiPending,
                   autoSave, gestures, selectCall, enter, gateway, render,
                   failure>>

\* time passes between two presses
PressGap(d) ==
    /\ detector.which # "none"
    /\ detector.presses \in 1..(MaxPresses - 1)
    /\ detector.previous = DateNow
    /\ Tick(d)

\* ------------------------------------------------------- specification
\* the state once the NotesApp constructor has returned: loadNotes() is
\* waiting for its snapshot
Constructed(budget) ==
    /\ now = 0
    /\ clockSkew \in ClockSkews
    /\ \E k \in 0..MaxNotes :
          /\ store = [i \in NoteIds |->
                         IF i <= k THEN InitialDoc(i, k) ELSE NoDoc]
          /\ nextId = k + 1
    /\ notes = << >>
    /\ currentNoteId = Null
    /\ noteTitle = << >>
    /\ editorHtml = << >>
    /\ view = "page"
    /\ saveStatus = <<"Loading notes...">>
    /\ saveTimeout = NoTimer
    /\ timeouts = EmptyBag
    /\ statusTimers = {}
    /\ pending = <<Request("load", Null, << >>, << >>, FALSE, "none")>>
    /\ isProcessing = FALSE
    /\ aiPending = << >>
    /\ autoSave = NoTrigger
    /\ gestures = budget
    /\ selectCall = "none"
    /\ enter = NoEnter
    /\ gateway = NotInvoked
    /\ render = NotRendered
    /\ failure = FALSE
    /\ detector = Unattached
    /\ scan = NotScanning

\* the page is opened on a client whose clock agrees with the server's
Init == Constructed(MaxGestures) /\ clockSkew = 0

Next ==
    \/ \E i \in 1..Len(pending) : StoreAccept(i)
    \/ \E i \in 1..Len(pending) : LoadResolved(i)
    \/ \E i \in 1..Len(pending) : LoadFailed(i)
    \/ CreateNewNote
    \/ \E i \in 1..Len(pending) : CreateResolved(i)
    \/ \E i \in 1..Len(pending) : CreateFailed(i)
    \/ \E confirmed \in BOOLEAN : DeleteCurrentNote(confirmed)
    \/ \E i \in 1..Len(pending) : DeleteResolved(i)
    \/ \E i \in 1..Len(pending) : DeleteFailed(i)
    \/ SaveCurrentNote
    \/ AutoSaveTimer
    \/ \E i \in 1..Len(pending) : SaveResolved(i)
    \/ \E i \in 1..Len(pending) : SaveFailed(i)
    \/ \E id \in NoteIds : ClickNote(id)
    \/ \E id \in NoteIds : SelectNoteUnlisted(id)
    \/ \E t \in TypedTitles : TitleInput(t)
    \/ \E h \in TypedContents : ContentInput(h)
    \/ \E d \in statusTimers : StatusTimer(d)
    \/ HandleDoubleEnterAI
    \/ HandleDoubleEnterFallback
    \/ \E t \in BlankTexts : ImproveBlank(t)
    \/ \E i \in 1..Len(aiPending), st \in GatewayStatuses,
          g \in GeneratedTexts : GatewayResponds(i, st, g)
    \/ \E i \in 1..Len(aiPending), m \in FetchErrorMessages :
          FetchRejects(i, m)
    \/ \E d \in TimeSteps : Tick(d)

Spec == Init /\ [][Next]_vars

\* A session in which the user selects, edits, saves and deletes the notes
\* the store already holds.
InitEdit == Constructed(MaxEditGestures)

NextEdit ==
    \/ \E i \in 1..Len(pending) : StoreAccept(i)
    \/ \E i \in 1..Len(pending) : LoadResolved(i)
    \/ SaveCurrentNote
    \/ AutoSaveTimer
    \/ \E i \in 1..Len(pending) : SaveResolved(i)
    \/ \E i \in 1..Len(pending) : SaveFailed(i)
    \/ \E confirmed \in BOOLEAN : DeleteCurrentNote(confirmed)
    \/ \E i \in 1..Len(pending) : DeleteResolved(i)
    \/ \E i \in 1..Len(pending) : DeleteFailed(i)
    \/ \E id \in NoteIds : ClickNote(id)
    \/ \E id \in NoteIds : SelectNoteUnlisted(id)
    \/ \E t \in TypedTitles : TitleInput(t)
    \/ \E h \in TypedContents : ContentInput(h)
    \/ \E d \in statusTimers : StatusTimer(d)
    \/ \E d \in TimeSteps : Tick(d)

SpecEdit == InitEdit /\ [][NextEdit]_vars

\* A session in which the user selects notes the store already holds, types
\* and saves, on a client whose clock agrees with the server's.
InitSave == Constructed(MaxSaveGestures) /\ clockSkew = 0

NextSave ==
    \/ \E i \in 1..Len(pending) : StoreAccept(i)
    \/ \E i \in 1..Len(pending) : LoadResolved(i)
    \/ SaveCurrentNote
    \/ AutoSaveTimer
    \/ \E i \in 1..Len(pending) : SaveResolved(i)
    \/ \E i \in 1..Len(pending) : SaveFailed(i)
    \/ \E id \in NoteIds : ClickNote(id)
    \/ \E t \in TypedTitles : TitleInput(t)
    \/ \E h \in TypedContents : ContentInput(h)
    \/ \E d \in statusTimers : StatusTimer(d)
    \/ \E d \in TimeSteps : Tick(d)

SpecSave == InitSave /\ [][NextSave]_vars

\* Enter presses fed to one of the detectors, with the page left alone.
InitDetector == Constructed(0) /\ clockSkew = 0

NextDetector ==
    \/ \E which \in Detectors : AttachDetector(which)
    \/ DetectorEnter
    \/ \E i \in 1..MaxPresses : DetectorResume(i)
    \/ \E d \in KeyGaps : PressGap(d)

SpecDetector == InitDetector /\ [][NextDetector]_vars

\* fixMarkdownFormatting called with a text, on its own
InitScan == Constructed(0) /\ clockSkew = 0
NextScan ==
    \/ \E text \in ScanTexts : FixMarkdownCall(text)
    \/ ScanIteration
    \/ ScanReturns
SpecScan == InitScan /\ [][NextScan]_vars

\* A session in which the user only types and asks for assistance.
InitAssist == Constructed(MaxAssistGestures)

NextAssist ==
    \/ \E i \in 1..Len(pending) : StoreAccept(i)
    \/ \E i \in 1..Len(pending) : LoadResolved(i)
    \/ \E i \in 1..Len(pending) : LoadFailed(i)
    \/ \E id \in NoteIds : ClickNote(id)
    \/ \E id \in NoteIds : SelectNoteUnlisted(id)
    \/ \E h \in TypedContents : ContentInput(h)
    \/ AutoSaveTimer
    \/ \E i \in 1..Len(pending) : SaveResolved(i)
    \/ \E i \in 1..Len(pending) : SaveFailed(i)
    \/ \E d \in statusTimers : StatusTimer(d)
    \/ HandleDoubleEnterAI
    \/ HandleDoubleEnterFallback
    \/ \E t \in BlankTexts : ImproveBlank(t)
    \/ \E i \in 1..Len(aiPending), st \in GatewayStatuses,
          g \in GeneratedTexts : GatewayResponds(i, st, g)
    \/ \E i \in 1..Len(aiPending), m \in FetchErrorMessages :
          FetchRejects(i, m)
    \/ \E d \in TimeSteps : Tick(d)

SpecAssist == InitAssist /\ [][NextAssist]_vars

\* time passes between one Enter press and the next event
KeyTick(d) ==
    /\ IF enter.previous = 0 THEN now = 0 ELSE enter.previous = DateNow
    /\ Tick(d)

\* A session in which the user, with no note selected, types and presses
\* Enter in the content editor, on a clock fine enough to tell a double
\* press from two presses.
InitKeys == Constructed(MaxKeyGestures)

NextKeys ==
    \/ \E i \in 1..Len(pending) : StoreAccept(i)
    \/ \E i \in 1..Len(pending) : LoadResolved(i)
    \/ \E i \in 1..Len(pending) : LoadFailed(i)
    \/ \E h \in TypedContents : ContentInput(h)
    \/ EnterKeydown
    \/ AutoSaveTimer
    \/ \E i \in 1..Len(aiPending), st \in GatewayStatuses,
          g \in GeneratedTexts : GatewayResponds(i, st, g)
    \/ \E i \in 1..Len(aiPending), m \in FetchErrorMessages :
          FetchRejects(i, m)
    \/ \E d \in KeyGaps : KeyTick(d)

SpecKeys == InitKeys /\ [][NextKeys]_vars

\* One invocation of a gateway function, beside a page nobody touches.
InitGateway == Constructed(0)

NextGateway ==
    \/ \E i \in 1..Len(pending) : StoreAccept(i)
    \/ \E i \in 1..Len(pending) : LoadResolved(i)
    \/ \E i \in 1..Len(pending) : LoadFailed(i)
    \/ \E fn \in Functions, method \in Methods, body \in Bodies,
          keys \in [Runs -> Credentials] :
          GatewayInvoke(fn, method, body, keys)
    \/ \E outcome \in UpstreamOutcomes : UpstreamAnswers(outcome)

SpecGateway == InitGateway /\ [][NextGateway]_vars

\* One text handed to the renderer or to a normalizer, which keep no
\* state from one call to the next, beside a page nobody touches.
InitRender == Constructed(0) /\ clockSkew = 0

NextRender ==
    \/ \E i \in 1..Len(pending) : StoreAccept(i)
    \/ \E i \in 1..Len(pending) : LoadResolved(i)
    \/ \E i \in 1..Len(pending) : LoadFailed(i)
    \/ \E markdownString \in MarkdownStrings, has \in Libraries :
          RenderMarkdown(markdownString, has)
    \/ \E normalizer \in Normalizers, text \in ModelOutputs \cup CanonicalTexts :
          NormalizeText(normalizer, text)
    \/ NormalizeAgain

SpecRender == InitRender /\ [][NextRender]_vars


\* ---------------------------------------------------------- properties
SortedDesc(list) ==
    \A i, j \in 1..Len(list) :
        i < j => list[i].updatedAt >= list[j].updatedAt

\* request i gets its successful response in this step
Succeeds(i, op) ==
    /\ pending[i].op = op
    /\ pending[i].stage = "ok"
    /\ pending' = RemoveAt(pending, i)

\* request i is rejected in this step
Fails(i, op) ==
    /\ pending[i].op = op
    /\ pending[i].stage = "sent"
    /\ pending' = RemoveAt(pending, i)

\* a handler issues a request for op in this step
Issues(op) ==
    /\ Len(pending') = Len(pending) + 1
    /\ SubSeq(pending', 1, Len(pending)) = pending
    /\ pending'[Len(pending')].op = op
    /\ pending'[Len(pending')].stage = "sent"

Issued == pending'[Len(pending')]

\* C1: after every successfully completed createNote, saveNote or
\* deleteNote the in-memory list is ordered by updatedAt descending, and a
\* saved note that was in the list is at its head afterwards.
C1_SortedAfterEveryMutation ==
    [][\A i \in 1..Len(pending) :
          /\ (Succeeds(i, "create") \/ Succeeds(i, "save")
                \/ Succeeds(i, "delete")) => SortedDesc(notes')
          /\ (Succeeds(i, "save") /\ pending[i].id \in Ids(notes))
                => notes'[1].id = pending[i].id]_vars

\* C2: once a confirmed deleteNote has completed successfully the deleted
\* note is absent from the store and from the in-memory list, and every
\* other note is still present in both, whatever happened while the store
\* delete was in flight.
C2_DeleteRemovesExactlyTheDeleted ==
    [][\A i \in 1..Len(pending) :
          Succeeds(i, "delete") =>
             /\ pending[i].id \notin Ids(notes')
             /\ ~store'[pending[i].id].exists
             /\ \A n \in Ids(notes) \ {pending[i].id} : n \in Ids(notes')
             /\ \A n \in NoteIds \ {pending[i].id} :
                   store[n].exists => store'[n].exists]_vars

\* C3: when the auto-save timer fires for two triggers less than
\* AutoSaveDelay apart, with the same note selected all along, it issues
\* exactly one store update, for that note, carrying the title and content
\* of the later edit.
C3_DebouncedSaveCarriesLaterEdit ==
    [][(/\ saveTimeout # NoTimer
        /\ saveTimeout' = NoTimer
        /\ autoSave.count = 2
        /\ autoSave.same
        /\ autoSave.note # Null
        /\ currentNoteId = autoSave.note)
          => /\ Issues("save")
             /\ Issued.id = autoSave.note
             /\ Issued.title = TitleToSave(autoSave.title)
             /\ Issued.content = autoSave.html]_vars

\* C4: at most one gateway request issued through the AIService instance
\* is in flight at any time.
C4_AtMostOneGatewayRequest == Len(aiPending) <= 1

\* improveText was invoked while a call was outstanding and returned null:
\* the fallback handler reported its failure, the first call still in flight
C4_RefusedWhileBusy ==
    /\ Len(aiPending) = 1
    /\ isProcessing
    /\ saveStatus = <<"AI improvement failed">>

\* C5: when a delete completes successfully, the selection becomes empty
\* and the welcome view is shown if the deleted note is the selected one,
\* and the selection is unchanged if it is not.
C5_DeleteClearsOnlyItsOwnSelection ==
    [][\A i \in 1..Len(pending) :
          Succeeds(i, "delete") =>
             IF pending[i].id = currentNoteId
             THEN currentNoteId' = Null /\ view' = "welcome"
             ELSE currentNoteId' = currentNoteId]_vars

\* C6: saveNote sends the store the trimmed title, or "Untitled Note" when
\* that is empty, and the current content; the store records them; and on
\* success the in-memory copy of the saved note holds that title and content.
C6_SavedNoteMatchesStore ==
    [][/\ Issues("save") =>
             /\ Issued.title = (IF \A k \in 1..Len(noteTitle) :
                                      noteTitle[k] = " "
                                THEN UntitledNote
                                ELSE Trim(noteTitle))
             /\ Issued.content = editorHtml'
       /\ \A i \in 1..Len(pending) :
             /\ (pending[i].op = "save" /\ pending[i].stage = "sent"
                   /\ Len(pending') = Len(pending)
                   /\ pending'[i].stage = "ok")
                  => /\ store'[pending[i].id].title = pending[i].title
                     /\ store'[pending[i].id].content = pending[i].content
             /\ (Succeeds(i, "save") /\ pending[i].id \in Ids(notes'))
                  => LET n == notes'[FindIndex(notes', pending[i].id)]
                     IN  /\ n.title = pending[i].title
                         /\ n.content = pending[i].content]_vars

\* C7: on success createNote adds exactly one note, titled "Untitled Note"
\* with empty content and the store-assigned id, at the head of the
\* in-memory list and selects it; the other entries keep their order.
C7_CreateInsertsAtHeadAndSelects ==
    [][\A i \in 1..Len(pending) :
          Succeeds(i, "create") =>
             /\ Len(notes') = Len(notes) + 1
             /\ notes'[1].id = pending[i].id
             /\ notes'[1].title = UntitledNote
             /\ notes'[1].content = << >>
             /\ Tail(notes') = notes
             /\ pending[i].id \in NoteIds
             /\ pending[i].id < nextId
             /\ currentNoteId' = pending[i].id]_vars

\* a create completed with other notes already listed
C7_CreatedAheadOfOthers ==
    /\ saveStatus = <<"New note created">>
    /\ Len(notes) >= 2
    /\ currentNoteId = notes[1].id
    /\ notes[1].title = UntitledNote

\* C8: if the store insert of createNote fails, createNote has changed
\* neither the in-memory list nor the selection, when it was invoked or
\* when the failure came back.
C8_FailedCreateLeavesMemory ==
    [][/\ Issues("create") => UNCHANGED <<notes, currentNoteId>>
       /\ \A i \in 1..Len(pending) :
             Fails(i, "create") => UNCHANGED <<notes, currentNoteId>>]_vars

\* a create failed while a note was selected
C8_CreateFailedWithSelection ==
    /\ saveStatus = <<"Error creating note">>
    /\ currentNoteId # Null
    /\ notes # << >>

\* C9: if the store delete of deleteNote fails, the store, the in-memory
\* list and the selection are left as they were, when it was invoked and
\* when the failure came back.
C9_FailedDeleteLeavesAll ==
    [][/\ Issues("delete") => UNCHANGED <<store, notes, currentNoteId>>
       /\ \A i \in 1..Len(pending) :
             Fails(i, "delete") => UNCHANGED <<store, notes, currentNoteId>>]_vars

\* a delete failed: the note is still selected, listed and stored
C9_DeleteFailedNoteKept ==
    /\ saveStatus = <<"Error deleting note">>
    /\ currentNoteId # Null
    /\ currentNoteId \in Ids(notes)
    /\ store[currentNoteId].exists

\* C10: if the store update of saveNote fails, the editor keeps the title
\* and content it holds, the error status is shown, and neither a request
\* nor an auto-save timer is started.
C10_FailedSaveKeepsEdits ==
    [][\A i \in 1..Len(pending) :
          Fails(i, "save") =>
             /\ UNCHANGED <<noteTitle, editorHtml, saveTimeout, timeouts>>
             /\ saveStatus' = <<"Error saving note">>]_vars

\* a save failed and the editor still holds text the in-memory copy lacks
C10_UnsavedEditVisible ==
    /\ saveStatus = <<"Error saving note">>
    /\ currentNoteId \in Ids(notes)
    /\ pending = << >>
    /\ saveTimeout = NoTimer
    /\ LET n == notes[FindIndex(notes, currentNoteId)]
       IN  n.title # noteTitle \/ n.content # editorHtml

\* C11 (as stated): when the startup fetch of the notes fails, the error
\* status is shown and the in-memory list is empty afterwards.
C11_FailedLoadLeavesListEmpty ==
    [][\A i \in 1..Len(pending) :
          Fails(i, "load") =>
              /\ saveStatus' = <<"Error loading notes">>
              /\ notes' = << >>]_vars

\* C11 (amended): when the startup fetch of the notes fails, the error
\* status is shown and the failure leaves the in-memory list as it was (it
\* holds the notes created while the fetch was outstanding).
C11_FailedLoadLeavesListAsItWas ==
    [][\A i \in 1..Len(pending) :
          Fails(i, "load") =>
              /\ saveStatus' = <<"Error loading notes">>
              /\ UNCHANGED notes]_vars

\* the startup fetch failed after a note had been created
C11_LoadFailedAfterCreate ==
    /\ saveStatus = <<"Error loading notes">>
    /\ Len(notes) = 1
    /\ \A i \in 1..Len(pending) : pending[i].op # "load"

\* C12: selectNote(id) with an id that is not in the in-memory list changes
\* neither the selection, nor the editor title and content, nor the view.
C12_SelectUnlistedIsNoOp ==
    [][\A id \in NoteIds :
          SelectNoteUnlisted(id) =>
              UNCHANGED <<currentNoteId, noteTitle, editorHtml, view, notes>>]_vars

\* selectNote did not find its id while a note was open in the editor
C12_UnlistedCallWithNoteOpen ==
    /\ selectCall = "absent"
    /\ currentNoteId \in Ids(notes)
    /\ view = "editor"
    /\ noteTitle # << >>

\* C13: improveText invoked with an empty or whitespace-only text, directly
\* or by a double Enter on an editor whose text is blank, issues no gateway
\* request and leaves the processing flag as it was.
C13_BlankTextIssuesNoRequest ==
    [][/\ \A t \in BlankTexts :
             ImproveBlank(t) => UNCHANGED <<aiPending, isProcessing>>
       /\ ( /\ Trim(TextContent(editorHtml)) = << >>
            /\ HandleDoubleEnterAI \/ HandleDoubleEnterFallback )
          => UNCHANGED <<aiPending, isProcessing>>]_vars

\* a double Enter on whitespace-only text was turned down and the service
\* is available
C13_BlankTextTurnedDown ==
    /\ saveStatus = <<"No text to improve">>
    /\ TextContent(editorHtml) = <<" ">>
    /\ IsAvailable
    /\ aiPending = << >>

\* C14: when the gateway answers a request of handleDoubleEnterAI with
\* status 429 the status line shows the rate-limit message, when it answers
\* with 503 the status line shows a "model is loading" message, and in both
\* cases the editor content and the in-memory list are left as they were.
C14_RateLimitAndLoadingMessages ==
    [][\A i \in 1..Len(aiPending), g \in GeneratedTexts :
          aiPending[i].handler = "ai" =>
             /\ GatewayResponds(i, 429, g) =>
                   /\ saveStatus' = <<"Rate limit exceeded. Wait a moment.">>
                   /\ UNCHANGED <<editorHtml, notes>>
             /\ GatewayResponds(i, 503, g) =>
                   /\ Includes(saveStatus',
                        "AI model is loading. Please wait 30 seconds and try again.")
                   /\ UNCHANGED <<editorHtml, notes>>]_vars

\* what an Enter keydown step shows of its two possible outcomes
AssistTriggered ==
    /\ saveStatus' \in {<<"AI is busy, please wait...">>,
                        <<"No text to improve">>,
                        <<"AI is improving your text...">>}
    /\ UNCHANGED editorHtml
DefaultActed ==
    /\ editorHtml' = editorHtml \o <<"<br>">>
    /\ UNCHANGED <<saveStatus, aiPending, isProcessing>>

\* the time since the previous Enter keydown lies within the window
PreviousEnterInWindow ==
    /\ enter.previous # 0
    /\ DateNow - enter.previous > 50
    /\ DateNow - enter.previous < 800

\* C15 (as stated): an Enter keydown in the content editor triggers the
\* assist flow, its default action suppressed, if and only if the previous
\* Enter keydown happened more than 50 ms and less than 800 ms earlier;
\* otherwise its default action is carried out and no assist is triggered.
C15_TriggersIffPreviousEnterInWindow ==
    [][EnterKeydown =>
          IF PreviousEnterInWindow
          THEN AssistTriggered /\ ~DefaultActed
          ELSE DefaultActed /\ ~AssistTriggered]_vars

\* C15 (amended): an Enter keydown in the content editor triggers the
\* assist flow, its default action suppressed, if and only if the previous
\* Enter keydown happened more than 50 ms and less than 800 ms earlier and
\* did not itself trigger the assist flow; otherwise its default action is
\* carried out and no assist is triggered.
C15_TriggersIffUnpairedEnterInWindow ==
    [][EnterKeydown =>
          IF PreviousEnterInWindow /\ ~enter.recognised
          THEN AssistTriggered /\ ~DefaultActed
          ELSE DefaultActed /\ ~AssistTriggered]_vars

\* the second of two Enter presses was taken for a double press: one line
\* break from the first, a gateway request from the second
C15_DoublePressRecognised ==
    /\ enter.recognised
    /\ editorHtml = <<"x", "<br>">>
    /\ Len(aiPending) = 1
    /\ saveStatus = <<"AI is improving your text...">>

\* the invocation has returned its response in every run
Returned == gateway.stage = "done"

\* the credential of run r is in the response of run r
CredentialAppears(r) ==
    LET resp == gateway.responses[r]
        key == gateway.keys[r]
    IN  /\ key # Unset
        /\ \/ Includes(resp.body.details, key)
           \/ Includes(resp.body.generated_text, key)
           \/ resp.body.error = key
           \/ key \in resp.headers

\* C16: the gateway sends a request upstream only for a POST event; an
\* OPTIONS event gets the preflight response and every other method that is
\* not POST gets an error body, neither with an upstream request.
C16_UpstreamOnlyForPost ==
    gateway.stage # "idle" =>
       \A r \in Runs :
          gateway.method # "POST" =>
             /\ Returned
             /\ gateway.requests[r] = << >>
             /\ IF gateway.method = "OPTIONS"
                THEN gateway.responses[r] = Preflight
                ELSE /\ gateway.responses[r].statusCode # 200
                     /\ "error" \in gateway.responses[r].body.fields

\* a GET event that carried a text, with the credential configured, was
\* turned down
C16_GetTurnedDown ==
    /\ Returned
    /\ gateway.method = "GET"
    /\ gateway.body = [kind |-> "text", text |-> <<"x">>]
    /\ gateway.keys[1] # Unset
    /\ gateway.responses[1].body.error = "Method not allowed"

\* C17: every response of the gateway whose status is not 200 has a JSON
\* body with an error field, also when event.body is not JSON and when the
\* upstream fetch throws.
C17_ErrorFieldUnlessOk ==
    Returned =>
       \A r \in Runs :
          gateway.responses[r].statusCode # 200 =>
             "error" \in gateway.responses[r].body.fields

\* the upstream fetch threw and the handler answered from its catch branch
C17_UpstreamThrew ==
    /\ Returned
    /\ gateway.outcome.kind = "rejects"
    /\ gateway.responses[1].statusCode = 500
    /\ gateway.responses[1].body.details = <<"fetch failed">>

\* C18 (as stated): the status of every gateway response is 200 or one of
\* 400, 401, 403, 429, 500 and 503, whatever the method and the upstream
\* status.
C18_StatusCodesOfTheContract ==
    Returned =>
       \A r \in Runs :
          gateway.responses[r].statusCode
             \in {200, 400, 401, 403, 429, 500, 503}

\* C18 (amended): the status of every gateway response is 200, 405 (only
\* for a method that is neither POST nor OPTIONS), 400, 403, 429 or 500,
\* or else the status of an upstream response that was not ok, passed on.
C18_StatusCodesOrUpstreamStatus ==
    Returned =>
       \A r \in Runs :
          LET status == gateway.responses[r].statusCode IN
          \/ status \in {200, 400, 403, 429, 500}
          \/ status = 405 /\ gateway.method \notin {"POST", "OPTIONS"}
          \/ /\ gateway.outcome.kind = "not ok"
             /\ gateway.requests[r] # << >>
             /\ status = gateway.outcome.status

\* the upstream API answered 404 and the gateway passed the status on
C18_UpstreamStatusPassedOn ==
    /\ Returned
    /\ gateway.outcome = [kind |-> "not ok", status |-> 404, text |-> << >>]
    /\ gateway.responses[1].statusCode = 404
    /\ "error" \in gateway.responses[1].body.fields

\* C19: the credential appears in no response, and two runs on the same
\* event and the same upstream outcome that differ only in the value of a
\* configured credential return the same response.
C19_ResponseIndependentOfCredential ==
    Returned =>
       /\ \A r \in Runs : ~CredentialAppears(r)
       /\ (\A r \in Runs : gateway.keys[r] # Unset) =>
             gateway.responses[1] = gateway.responses[2]

\* two runs sent different credentials upstream, the fetch threw in both
C19_TwoCredentialsSameFailure ==
    /\ Returned
    /\ gateway.fn = "improve-text"
    /\ gateway.keys = <<"key-A", "key-B">>
    /\ gateway.requests[1] # gateway.requests[2]
    /\ gateway.outcome.kind = "rejects"

\* C20: when the model's output is empty, or empty once trimmed, the
\* gateway does not answer 200, and it has sent one upstream request.
C20_EmptyOutputIsAFailure ==
    Returned =>
       \A r \in Runs :
          ( /\ gateway.outcome.kind = "ok"
            /\ Trim(gateway.outcome.text) = << >>
            /\ gateway.requests[r] # << >> )
          => /\ gateway.responses[r].statusCode # 200
             /\ Len(gateway.requests[r]) = 1

\* only elements and attributes of the allow-list
AllowListed(html) ==
    \A k \in 1..Len(html) :
        html[k] \in Markup =>
           /\ TagName(html[k]) \in ALLOWED_TAGS
           /\ AttrNames(html[k]) \subseteq ALLOWED_ATTR

\* C21: whatever renderMarkdown puts into the document view has been
\* through the allow-list sanitizer: the view holds no element and no
\* attribute outside the allow-list.
C21_InsertedTextIsAllowListed ==
    render.stage = "done" => AllowListed(render.innerHTML)

\* C22: for text in canonical block form, a second pass of a normalizer
\* returns what the first pass returned.
C22_SecondPassChangesNothing ==
    ( /\ render.stage = "normalized"
      /\ render.text \in CanonicalTexts
      /\ Len(render.passes) >= 2 )
    => render.passes[2] = render.passes[1]

\* the requests to the store and to the gateway that are in flight
InFlight == Len(pending) + Len(aiPending)
\* the status line shows the message of a failure handler
ErrorStatus(status) ==
    \/ status \in {<<"Error loading notes">>, <<"Error creating note">>,
                   <<"Error saving note">>, <<"Error deleting note">>,
                   <<"AI improvement failed">>,
                   <<"Connection failed. Check internet connection.">>,
                   <<"API key invalid or quota exceeded.">>,
                   <<"Rate limit exceeded. Wait a moment.">>}
    \/ status # << >> /\ Head(status) = "AI error: "
\* a step issues at most one request, and the step in which a request
\* fails shows an error status and issues none
OneRequestAndFailureSurfaced ==
    /\ InFlight' <= InFlight + 1
    /\ (~failure /\ failure') =>
          /\ InFlight' < InFlight
          /\ ErrorStatus(saveStatus')
\* the auto-save timer fires in this step
TimerFires == saveTimeout # NoTimer /\ saveTimeout' = NoTimer

\* C23 as stated: a step issues at most one request; the step in which a
\* request fails shows an error status and issues none; and from then on
\* no step issues a request until a user event occurs.
C23_NoRequestUntilUserEvent ==
    [][/\ OneRequestAndFailureSurfaced
       /\ failure' => InFlight' <= InFlight]_vars

\* C23, amended: as above, except that an auto-save timer armed by an
\* input event before the failure still fires and issues its save.
C23_NoRequestButOfArmedTimer ==
    [][/\ OneRequestAndFailureSurfaced
       /\ (failure' /\ InFlight' > InFlight) =>
             /\ TimerFires
             /\ Issues("save")
             /\ Issued.auto]_vars

\* a failure has been reported, nothing is in flight and no user event
\* has followed
C23_FailureSurfacedNothingInFlight ==
    /\ failure
    /\ ErrorStatus(saveStatus)
    /\ InFlight = 0

\* a double Enter handler runs on a non-blank editor while the service is
\* processing an earlier request
BusyOnMainPath == isProcessing /\ HandleDoubleEnterAI
BusyOnFallbackPath ==
    /\ isProcessing
    /\ Trim(TextContent(editorHtml)) # << >>
    /\ HandleDoubleEnterFallback
\* the step in which a request to the store or the gateway fails shows a
\* message of type error
FailureShowsError ==
    (~failure /\ failure') => StatusType(saveStatus') = "error"

HeldUpdatedAt(list, id) == list[FindIndex(list, id)].updatedAt
\* no note of the list is held with a smaller updatedAt after the step
UpdatedAtNeverDecreases ==
    \A id \in Ids(notes) \cap Ids(notes') :
        HeldUpdatedAt(notes', id) >= HeldUpdatedAt(notes, id)
\* a save that succeeds refreshes the updatedAt held for the saved note
RefreshedOnPersist ==
    \A i \in 1..Len(pending) :
        (Succeeds(i, "save") /\ pending[i].id \in Ids(notes)) =>
           /\ pending[i].id \in Ids(notes')
           /\ HeldUpdatedAt(notes', pending[i].id) = ClientNow

\* C25: the updatedAt the controller holds for a note never decreases,
\* and every save that succeeds refreshes it for the saved note, whether
\* the value held came from the server (load) or from the client clock.
C25_UpdatedAtMonotoneAndRefreshed ==
    [][UpdatedAtNeverDecreases /\ RefreshedOnPersist]_vars

\* the debounce timer fires on the note and the text of its last input
UndisturbedDebounce ==
    /\ TimerFires
    /\ autoSave.count >= 1
    /\ autoSave.note # Null
    /\ currentNoteId = autoSave.note
    /\ noteTitle = autoSave.title
    /\ editorHtml = autoSave.html
\* the server carries out the update of request i
SaveAccepted(i) ==
    /\ pending[i].op = "save"
    /\ pending[i].stage = "sent"
    /\ Len(pending') = Len(pending)
    /\ pending'[i].stage = "ok"
\* no other document was written at the present server time
NoSimultaneousWrite(id) ==
    \A j \in NoteIds \ {id} : store[j].exists => store[j].updatedAt < now

\* C26: when the debounce delay elapses on a note with the typed text
\* still in the editor, the save issued is for that note and carries that
\* text; when the store accepts a save it holds the saved content for the
\* note, and a list() then returns the note first.
C26_TypedContentStoredAndListedFirst ==
    [][/\ UndisturbedDebounce =>
             /\ Issues("save")
             /\ Issued.auto
             /\ Issued.id = autoSave.note
             /\ Issued.content = autoSave.html
       /\ \A i \in 1..Len(pending) :
             SaveAccepted(i) =>
                /\ store'[pending[i].id].exists
                /\ store'[pending[i].id].content = pending[i].content
                /\ NoSimultaneousWrite(pending[i].id) =>
                      StoreList(store')[1].id = pending[i].id]_vars

\* a note created in the session holds typed content through an
\* auto-save the store accepted, and is listed first
C26_CreatedNoteAutoSaved ==
    \E i \in 1..Len(pending) :
        LET r == pending[i] IN
        /\ r.op = "save" /\ r.stage = "ok" /\ r.auto
        /\ r.content \in TypedContents
        /\ r.id = currentNoteId
        /\ store[r.id].exists
        /\ store[r.id].title = UntitledNote
        /\ store[r.id].content = r.content
        /\ StoreList(store)[1].id = r.id
        /\ gestures = MaxGestures - 2

\* the update() a save request carries
UpdateOf(r) == [id |-> r.id, title |-> r.title, content |-> r.content]
\* the list once an update has succeeded with note selected
SavedList(list, selected, update) ==
    LET noteIndex == FindIndex(list, selected) IN
    IF noteIndex = 0 THEN list
    ELSE [list EXCEPT ![noteIndex] =
             Note(@.id, update.title, update.content, ClientNow)]

\* C27: a save issues the update the other mode (auto-save or manual)
\* would issue from the same selection, title and editor; the store
\* carries out the update and the list is left as the update and the
\* selection alone determine, whichever the mode; of the page, only the
\* status message depends on the mode.
C27_SaveModesPersistAlike ==
    [][/\ Issues("save") =>
             UpdateOf(Issued) =
                UpdateOf(SaveRequest(editorHtml', ~Issued.auto, Issued.after))
       /\ \A i \in 1..Len(pending) :
             LET r == pending[i] IN
             /\ SaveAccepted(i) =>
                   store' = [store EXCEPT ![r.id] =
                                Doc(r.title, r.content, now)]
             /\ Succeeds(i, "save") =>
                   /\ notes' = SavedList(notes, currentNoteId, UpdateOf(r))
                   /\ r.after = "none" =>
                         saveStatus' = IF r.auto THEN <<"Auto-saved">>
                                       ELSE <<"Note saved!">>
                   /\ UNCHANGED <<store, currentNoteId, noteTitle,
                                  editorHtml, view, saveTimeout, timeouts>>
             /\ Fails(i, "save") =>
                   UNCHANGED <<store, notes, currentNoteId, noteTitle,
                               editorHtml, view, saveTimeout, timeouts>>]_vars

\* the store has carried out an auto-save and a manual save issued from
\* the same selection, title and editor
C27_BothModesSavedTheSame ==
    \E i, j \in 1..Len(pending) :
        /\ pending[i].op = "save" /\ pending[i].stage = "ok"
        /\ pending[j].op = "save" /\ pending[j].stage = "ok"
        /\ pending[i].auto /\ ~pending[j].auto
        /\ UpdateOf(pending[i]) = UpdateOf(pending[j])
        /\ pending[i].title # UntitledNote
        /\ store[pending[i].id].content = pending[i].content

\* the step is no gesture of the user and completes no request
NothingTriggeredOrCompleted ==
    /\ gestures' = gestures
    /\ Len(pending') >= Len(pending)
    /\ Len(aiPending') >= Len(aiPending)

\* C28: once a manual save has shown "Note saved!", the message stays
\* until an operation changes it: no step that is neither a gesture nor
\* the completion of a request, such as a status-clearing timer left by
\* an earlier auto-save or assist, changes it.
C28_NoteSavedStaysDisplayed ==
    [][(saveStatus = <<"Note saved!">> /\ NothingTriggeredOrCompleted)
          => saveStatus' = saveStatus]_vars

\* C29: at most one auto-save timeout is pending, the one set by the last
\* scheduleAutoSave (from the title input or the content input) and named
\* by this.saveTimeout; a timeout an input has superseded is no longer
\* pending, so it cannot fire a save.
C29_OnlyLastScheduledTimeoutPending ==
    /\ BagCardinality(timeouts) <= 1
    /\ timeouts = IF saveTimeout = NoTimer THEN EmptyBag
                  ELSE SetToBag({saveTimeout})

\* a title input and a content input on the selected note were followed
\* by one save, and no timeout is left
C29_TwoInputsOneSave ==
    /\ gestures = MaxSaveGestures - 3
    /\ timeouts = EmptyBag
    /\ Len(pending) = 1
    /\ pending[1].op = "save" /\ pending[1].auto
    /\ pending[1].title = UntitledNote
    /\ pending[1].content \in TypedContents

\* C30: a store delete is issued only by a gesture of the user, with a
\* note selected, for that note, and leaves the list alone; the entries
\* the completion of a delete removes from the list are entries of the
\* note whose store delete has succeeded; a delete that fails removes none.
C30_DeleteStoreThenMemory ==
    [][/\ Issues("delete") =>
             /\ currentNoteId # Null
             /\ Issued.id = currentNoteId
             /\ gestures' = gestures - 1
             /\ notes' = notes
       /\ \A i \in 1..Len(pending) :
             /\ Succeeds(i, "delete") =>
                   \A n \in Ids(notes) \ Ids(notes') :
                       n = pending[i].id /\ ~store[n].exists
             /\ Fails(i, "delete") => notes' = notes]_vars

\* the HTML a handler makes of improved text
ImprovedHTML(handler, improved) ==
    IF handler = "ai" THEN ConvertMarkdownToHTML(improved)
    ELSE FallbackHTML(improved)
\* the step is call i of improveText resolving with a non-empty string,
\* the service's answer to generated under version
ResolvesNonEmpty(i, version, generated) ==
    LET outcome == ImproveOutcome(version, generated, aiPending[i].text) IN
    /\ ~outcome.throws
    /\ Trim(outcome.value) # << >>
    /\ AssistResolved(i, outcome.value)
\* the string call i resolves with in such a step
ResolvedText(i, version, generated) ==
    ImproveOutcome(version, generated, aiPending[i].text).value

\* C31: an assist call in flight is never cancelled: when it resolves with
\* improved text the editor is set to the HTML made of that text, whatever
\* the user typed or selected while the call was in flight.
C31_ResolvedTextOverwritesEditor ==
    [][\A i \in 1..Len(aiPending), version \in ServiceVersions,
          generated \in GeneratedTexts :
          ResolvesNonEmpty(i, version, generated) =>
             editorHtml' = ImprovedHTML(aiPending[i].handler,
                               ResolvedText(i, version, generated))]_vars

\* C32: in every reachable state the selection is empty or the id of a
\* note of the in-memory list.
C32_SelectionIsListed ==
    currentNoteId = Null \/ currentNoteId \in Ids(notes)

\* the title and content the list holds for note id
HeldText(list, id) ==
    [title |-> list[FindIndex(list, id)].title,
     content |-> list[FindIndex(list, id)].content]

\* C33: a save that completes changes the in-memory title and content of
\* no note but the one whose document it updated, whichever note is
\* selected when the update resolves.
C33_SaveTouchesOnlyItsOwnEntry ==
    [][\A i \in 1..Len(pending) :
          Succeeds(i, "save") =>
             \A n \in Ids(notes) \ {pending[i].id} :
                 /\ n \in Ids(notes')
                 /\ HeldText(notes', n) = HeldText(notes, n)]_vars

\* C34: no edit is silently lost.  An edit made with a note selected
\* reaches the store through the debounce timer only, so: when the timer
\* fires after an edit of a note, the step issues a store update of that
\* same note carrying the title and content the edit left in the editor,
\* or shows a save error, whatever was selected or created in between.
C34_EditReachesStoreOrErrorShown ==
    [][(TimerFires /\ autoSave.count >= 1 /\ autoSave.note # Null) =>
          \/ /\ Issues("save")
             /\ Issued.id = autoSave.note
             /\ Issued.title = TitleToSave(autoSave.title)
             /\ Issued.content = autoSave.html
          \/ /\ saveStatus' # saveStatus
             /\ saveStatus' = <<"Error saving note">>]_vars

\* a store delete of note id has been issued and has not completed
DeleteInFlight(id) ==
    \E i \in 1..Len(pending) :
        pending[i].op = "delete" /\ pending[i].id = id

\* C35: no store update is issued for a note whose store delete has been
\* issued; in particular none while that delete is in flight, by an
\* auto-save timer scheduled before it or otherwise.
C35_NoUpdateOnceDeleteIssued ==
    [][Issues("save") => ~DeleteInFlight(Issued.id)]_vars

\* C36: when improveText resolves with non-empty improved text the handler
\* puts the HTML made of it in the editor and, with a note selected,
\* issues an auto-save carrying it; "AI couldn't improve this text" is
\* shown only for an empty improved text.
C36_ImprovedTextAppliedAndSaved ==
    [][\A i \in 1..Len(aiPending), version \in ServiceVersions,
          generated \in GeneratedTexts :
          ResolvesNonEmpty(i, version, generated) =>
             LET html == ImprovedHTML(aiPending[i].handler,
                             ResolvedText(i, version, generated))
             IN  /\ editorHtml' = html
                 /\ currentNoteId # Null =>
                       /\ Issues("save")
                       /\ Issued.auto
                       /\ Issued.id = currentNoteId
                       /\ Issued.content = html
                 /\ saveStatus' # <<"AI couldn't improve this text">>]_vars

\* C37: every detector is reset by a double press it recognises, so of n
\* Enter presses at most floor(n/2) trigger the assist flow, however soon
\* they follow one another.
C37_AtMostHalfThePressesTrigger ==
    detector.which # "none" => 2 * detector.triggers <= detector.presses

\* a call of improveText that had set the processing flag completes: it
\* resolves or throws
CallCompletes == Len(aiPending') < Len(aiPending)

\* C38: whenever an improveText call that set the processing flag
\* completes, by success, by a gateway status that is not OK or by a
\* network error, the flag is cleared; so isAvailable() is true whenever no
\* call is in flight.
C38_FlagClearedWhenCallCompletes ==
    /\ [](aiPending = << >> => ~isProcessing /\ IsAvailable)
    /\ [][CallCompletes => ~isProcessing' /\ aiPending' = << >>]_vars

\* a call failed on a network error and the service is available again
C38_AvailableAfterNetworkError ==
    /\ saveStatus = <<"Connection failed. Check internet connection.">>
    /\ aiPending = << >>
    /\ IsAvailable

\* C39: every iteration of the scanning loop of the token-based
\* fixMarkdownFormatting, the header and bullet branches that step the index
\* back by one included, leaves the index strictly greater than it was at
\* the start of the iteration and not beyond the end of the text, so the
\* loop ends after at most as many iterations as the text has characters.
C39_EveryIterationAdvancesTheIndex ==
    [][scan.stage = "scanning" /\ scan'.stage = "scanning"
          => scan'.i > scan.i /\ scan'.i <= Len(scan.normalized)]_vars

\* the header branch read '#' of '# #', found no header text and stepped
\* back: the index went from 0 to 1
C39_HeaderBranchSteppedBack ==
    /\ scan.stage = "scanning"
    /\ scan.normalized = <<"#", " ", "#">>
    /\ scan.i = 1
    /\ Len(scan.tokens) = 1

====
